---- MODULE Spec2Model ----
(***************************************************************************)
(* State-machine model of miracle-wm's tiling container tree               *)
(* (TilingWindowTree, LeafContainer, ParentContainer).                     *)
(*                                                                         *)
(* Containers are drawn from a pool of identifiers (leaves 1..MaxLeafIds,  *)
(* lanes after them); 0 stands for a null pointer.  An address carries no  *)
(* meaning, so after a handler the lanes are renumbered in traversal order *)
(* and destroyed containers return to the pool.                            *)
(* A handler of the program is one action; the                             *)
(* functions a handler calls are operators on a heap record `h` that       *)
(* holds every mutable field, so that a handler is the composition of the  *)
(* calls it makes, in the order of the source.                             *)
(***************************************************************************)
EXTENDS Integers, Sequences, FiniteSets, TLC

\* ---------------------------------------------------------------- bounds
\* windows placed in the general specifications
MaxLeaves == 2
\* windows placed in the specifications of select and resize among siblings
MaxLeafIds == 3
MaxLanes == 3
MaxResizes == 2
\* outputs of the display and windows known to the policy
MaxOutputs == 2
MaxWindows == 2
\* animations started, time steps an animation lasts, batches handed to the
\* server action queue while no animation is queued
MaxAnimations == 2
MaxDuration == 2
MaxIdleBatches == 1
\* IPC command batches received and commands per batch
MaxIpcBatches == 3
MaxCommands == 2

\* ------------------------------------------------------ program constants
MinWidth == 50
MinHeight == 50
\* the configuration: inner gaps and border size
InnerGapsX == 10
InnerGapsY == 11
BorderSize == 2

\* identifiers: leaves first, then lanes
LeafIds == 1..MaxLeafIds
LaneIds == (MaxLeafIds + 1)..(MaxLeafIds + MaxLanes)
Nodes == LeafIds \cup LaneIds
Directions == {"up", "left", "down", "right"}
LayoutSchemes == {"horizontal", "vertical", "tabbing", "stacking"}
RequestableSchemes == {"horizontal", "vertical", "tabbing"}
WindowStates == {"restored", "fullscreen"}
WindowManagerModes == {"normal", "resizing", "selecting", "dragging", "moving"}
ResizeJumps == {100, 0 - 100, 275}

OutputIds == 1..MaxOutputs
WindowIds == 1..MaxWindows

\* the extents of the first zone of the output (tree_interface->get_zones())
ZoneExtents == [x |-> 0, y |-> 0, w |-> 1000, h |-> 800]
NoArea == [x |-> 0, y |-> 0, w |-> 0, h |-> 0]

VARIABLES
    kind,                         \* "none" (unused id), "leaf", "lane"
    parent,                       \* Container::parent (0 = expired/null)
    sub_nodes,                    \* ParentContainer: ordered children
    direction,                    \* ParentContainer: layout scheme
    logical_area,                 \* committed logical area
    next_logical_area,            \* LeafContainer: staged area, <<>> or <<r>>
    win_state,                    \* window controller: state of the window
    next_state,                   \* LeafContainer: staged state or "none"
    root_lane,                    \* TilingWindowTree::root_lane
    is_active_window_fullscreen,  \* TilingWindowTree flag
    active,                       \* CompositorState::active (0 = none)
    is_hidden,                    \* TilingWindowTree::is_hidden
    before_shown_state,           \* LeafContainer: state before hide or "none"
    mode,                         \* CompositorState::mode
    containers,                   \* ContainerGroupContainer::containers
    crashed,                      \* undefined behaviour was executed
    resizes,                      \* number of geometry-changing resizes
    last,                         \* the handler that ran last, its result
    output_list,                  \* Policy::output_list (identifiers of outputs)
    active_output,                \* CompositorState::active_output (0 = nullptr)
    hosted,                       \* the windows each Output hosts
    orphaned_window_list,         \* Policy::orphaned_window_list
    windows,                      \* the windows that exist
    cursor_output,                \* the output the cursor was last moved to
    running,                      \* Animator::running
    queued_animations,            \* Animator::queued_animations
    next_handle,                  \* Animator::next_handle
    anim_pc,                      \* where the animator thread is in run()
    action_queue,                 \* server action queue: batches of results
    invoked,                      \* the callbacks invoked so far, in order
    stop_pc,                      \* where the main thread is in stop()
    idle_batches,                 \* batches enqueued with no result in them
    pending_commands,             \* Ipc::pending_commands
    ipc_queue,                    \* queued actions of parse_i3_command
    executed,                     \* commands handed to executor.process
    accepted                      \* commands of the batches replied success

\* the state of the policy's outputs
policy_vars == <<output_list, active_output, hosted, orphaned_window_list,
                 windows, cursor_output>>

\* the state of the animator, its thread and the server action queue
animator_vars == <<running, queued_animations, next_handle, anim_pc,
                   action_queue, invoked, stop_pc, idle_batches>>

\* the state of the IPC command queue
ipc_vars == <<pending_commands, ipc_queue, executed, accepted>>

\* the state outside the window tree
subsystem_vars == <<policy_vars, animator_vars, ipc_vars>>

\* the state of the window tree, its windows and the compositor mode
tree_state_vars == <<kind, parent, sub_nodes, direction, logical_area,
                     next_logical_area, win_state, next_state, root_lane,
                     is_active_window_fullscreen, active, is_hidden,
                     before_shown_state, mode, containers, resizes>>

vars == <<kind, parent, sub_nodes, direction, logical_area, next_logical_area,
          win_state, next_state, root_lane, is_active_window_fullscreen,
          active, is_hidden, before_shown_state, mode, containers, crashed,
          resizes, last, subsystem_vars>>

\* the mutable program state as one record
Heap ==
    [kind |-> kind, parent |-> parent, sub_nodes |-> sub_nodes,
     direction |-> direction, logical_area |-> logical_area,
     next_logical_area |-> next_logical_area, win_state |-> win_state,
     next_state |-> next_state, root_lane |-> root_lane,
     fullscreen |-> is_active_window_fullscreen, active |-> active,
     is_hidden |-> is_hidden, before_shown_state |-> before_shown_state]

SetHeap(h) ==
    /\ kind' = h.kind
    /\ parent' = h.parent
    /\ sub_nodes' = h.sub_nodes
    /\ direction' = h.direction
    /\ logical_area' = h.logical_area
    /\ next_logical_area' = h.next_logical_area
    /\ win_state' = h.win_state
    /\ next_state' = h.next_state
    /\ root_lane' = h.root_lane
    /\ is_active_window_fullscreen' = h.fullscreen
    /\ active' = h.active
    /\ is_hidden' = h.is_hidden
    /\ before_shown_state' = h.before_shown_state

\* ------------------------------------------------------- sequence helpers
IndexOf(s, e) == IF \E i \in 1..Len(s) : s[i] = e
                 THEN CHOOSE i \in 1..Len(s) : s[i] = e
                 ELSE 0

Erase(s, e) == SelectSeq(s, LAMBDA v : v # e)

\* insert e so that it ends up at 1-based position i
InsertAt(s, i, e) == SubSeq(s, 1, i - 1) \o <<e>> \o SubSeq(s, i, Len(s))

SwapSeq(s, a, b) ==
    [i \in 1..Len(s) |-> IF s[i] = a THEN b ELSE IF s[i] = b THEN a ELSE s[i]]

\* --------------------------------------------------------- direction.h
from_direction(d) == IF d \in {"up", "down"} THEN "vertical" ELSE "horizontal"
is_negative_direction(d) == d \in {"left", "up"}
is_vertical_direction(d) == d \in {"up", "down"}
opposite(d) == CASE d = "up" -> "down" [] d = "down" -> "up"
                 [] d = "left" -> "right" [] d = "right" -> "left"

\* ------------------------------------------------------ LeafContainer
get_logical_area(h, n) ==
    IF h.kind[n] = "leaf" /\ h.next_logical_area[n] # <<>>
    THEN h.next_logical_area[n][1]
    ELSE h.logical_area[n]

is_fullscreen(h, n) == h.win_state[n] = "fullscreen"

get_min_width(h, n) == MinWidth
get_min_height(h, n) == MinHeight

\* commit_changes of a leaf as it would be if it kept the staged rectangle
LeafCommitChanges_keeps_staged(h, n) ==
    LET h1 == IF h.next_state[n] # "none"
              THEN [h EXCEPT !.win_state[n] = h.next_state[n],
                             !.next_state[n] = "none"]
              ELSE h
    IN IF h1.next_logical_area[n] # <<>>
       THEN [h1 EXCEPT !.logical_area[n] = h1.next_logical_area[n][1]]
       ELSE h1

LeafCommitChanges(h, n) ==
    LET h1 == IF h.next_state[n] # "none"
              THEN [h EXCEPT !.win_state[n] = h.next_state[n],
                             !.next_state[n] = "none"]
              ELSE h
    IN IF h1.next_logical_area[n] # <<>>
       THEN [h1 EXCEPT !.logical_area[n] = h1.next_logical_area[n][1],
                       !.next_logical_area[n] = <<>>]
       ELSE h1

\* ------------------------------------------------------ ParentContainer
num_nodes(h, lane) == Len(h.sub_nodes[lane])

Extent(r, scheme) == IF scheme = "vertical" THEN r.h ELSE r.w

RECURSIVE set_logical_area(_, _, _)
RECURSIVE LayoutFrom(_, _, _, _)

\* children i.. of the lane are laid out from offset off along the main axis:
\* the lane is shared equally, the last child takes what is left; in a tabbing
\* or stacking lane every child takes the whole area
LayoutFrom(h, lane, i, off) ==
    LET subs == h.sub_nodes[lane]
        n == Len(subs)
        A == h.logical_area[lane]
        s == h.direction[lane]
    IN IF i > n THEN h
       ELSE LET c == subs[i]
                ext == IF s = "vertical"
                       THEN (IF i = n THEN A.y + A.h - off ELSE A.h \div n)
                       ELSE (IF i = n THEN A.x + A.w - off ELSE A.w \div n)
                r == CASE s = "horizontal" ->
                            [x |-> off, y |-> A.y, w |-> ext, h |-> A.h]
                       [] s = "vertical" ->
                            [x |-> A.x, y |-> off, w |-> A.w, h |-> ext]
                       [] OTHER -> A
            IN LayoutFrom(set_logical_area(h, c, r), lane, i + 1, off + ext)

relayout(h, lane) ==
    LET s == h.direction[lane]
        A == h.logical_area[lane]
    IN LayoutFrom(h, lane, 1, IF s = "vertical" THEN A.y ELSE A.x)

set_logical_area(h, n, r) ==
    IF h.kind[n] = "leaf"
    THEN [h EXCEPT !.next_logical_area[n] = <<r>>]
    ELSE relayout([h EXCEPT !.logical_area[n] = r], n)

RECURSIVE commit_changes(_, _)
RECURSIVE CommitFrom(_, _, _)
CommitFrom(h, subs, i) ==
    IF i > Len(subs) THEN h
    ELSE CommitFrom(commit_changes(h, subs[i]), subs, i + 1)

commit_changes(h, n) ==
    IF h.kind[n] = "leaf" THEN LeafCommitChanges(h, n)
    ELSE CommitFrom(h, h.sub_nodes[n], 1)

remove(h, lane, node) ==
    relayout([h EXCEPT !.sub_nodes[lane] = Erase(@, node),
                       !.parent[node] = 0], lane)

\* index is 0-based, as in the source
graft_existing(h, lane, node, index) ==
    relayout([h EXCEPT !.sub_nodes[lane] = InsertAt(@, index + 1, node),
                       !.parent[node] = lane], lane)

swap_nodes(h, lane, a, b) ==
    relayout([h EXCEPT !.sub_nodes[lane] = SwapSeq(@, a, b)], lane)

set_direction(h, lane, scheme) ==
    commit_changes(relayout([h EXCEPT !.direction[lane] = scheme], lane), lane)

\* the smallest unused identifier of a set (0 when the pool is exhausted)
NewIdIn(h, ids) ==
    IF \E n \in ids : h.kind[n] = "none"
    THEN CHOOSE n \in ids : h.kind[n] = "none"
             /\ \A m \in ids : h.kind[m] = "none" => n <= m
    ELSE 0
NewLeafId(h) == NewIdIn(h, LeafIds)
NewLaneId(h) == NewIdIn(h, LaneIds)

\* the child is wrapped in a new lane that takes its place and its area
convert_to_parent(h, lane, child) ==
    LET new == NewLaneId(h)
        i == IndexOf(h.sub_nodes[lane], child)
    IN [h EXCEPT !.kind[new] = "lane",
                 !.parent[new] = lane,
                 !.direction[new] = h.direction[lane],
                 !.logical_area[new] = get_logical_area(h, child),
                 !.sub_nodes[new] = <<child>>,
                 !.sub_nodes[lane] = [@ EXCEPT ![i] = new],
                 !.parent[child] = new]

\* create_space_for_window and confirm_window: the new leaf takes the whole
\* lane when it is empty; otherwise the active child (the last child when
\* the active container is not a child of the lane) is halved along the main
\* axis and the leaf takes the vacated half, right after that child
confirm_window(h, lane) ==
    LET new == NewLeafId(h)
        subs == h.sub_nodes[lane]
        n == Len(subs)
        s == h.direction[lane]
        k == IF IndexOf(subs, h.active) # 0 THEN IndexOf(subs, h.active) ELSE n
        A == h.logical_area[lane]
        h0 == [h EXCEPT !.kind[new] = "leaf", !.parent[new] = lane,
                        !.win_state[new] = "restored"]
    IN IF n = 0
       THEN [h0 EXCEPT !.sub_nodes[lane] = <<new>>, !.logical_area[new] = A]
       ELSE IF s \in {"tabbing", "stacking"}
       THEN [h0 EXCEPT !.sub_nodes[lane] = InsertAt(subs, k + 1, new),
                       !.logical_area[new] = A]
       ELSE LET c == subs[k]
                old == get_logical_area(h, c)
                keep == IF s = "vertical" THEN old.h \div 2 ELSE old.w \div 2
                rc == IF s = "vertical" THEN [old EXCEPT !.h = keep]
                      ELSE [old EXCEPT !.w = keep]
                rn == IF s = "vertical"
                      THEN [old EXCEPT !.y = old.y + keep, !.h = old.h - keep]
                      ELSE [old EXCEPT !.x = old.x + keep, !.w = old.w - keep]
                h1 == [h0 EXCEPT !.sub_nodes[lane] = InsertAt(subs, k + 1, new),
                                 !.logical_area[new] = rn]
            IN commit_changes(set_logical_area(h1, c, rc), c)

\* ------------------------------------------------- neighbours and gaps
\* has_neighbor: climbs the parents; a lane of the asked scheme with more
\* than one child in which the climbing node is not at cannot_be_index
\* counts as a neighbour.  cannot_be_index is the one the caller computed
\* from the immediate parent, at every level
RECURSIVE has_neighbor(_, _, _, _)
has_neighbor(h, container, scheme, cannot_be_index) ==
    LET par == h.parent[container]
        index == IndexOf(h.sub_nodes[par], container) - 1
    IN IF par = 0 THEN FALSE
       ELSE IF h.direction[par] # scheme
       THEN has_neighbor(h, par, scheme, cannot_be_index)
       ELSE \/ (num_nodes(h, par) > 1 /\ index # cannot_be_index)
            \/ has_neighbor(h, par, scheme, cannot_be_index)

has_right_neighbor(h, c) ==
    IF h.parent[c] = 0 THEN FALSE
    ELSE has_neighbor(h, c, "horizontal", num_nodes(h, h.parent[c]) - 1)

has_bottom_neighbor(h, c) ==
    IF h.parent[c] = 0 THEN FALSE
    ELSE has_neighbor(h, c, "vertical", num_nodes(h, h.parent[c]) - 1)

has_left_neighbor(h, c) ==
    IF h.parent[c] = 0 THEN FALSE ELSE has_neighbor(h, c, "horizontal", 0)

has_top_neighbor(h, c) ==
    IF h.parent[c] = 0 THEN FALSE ELSE has_neighbor(h, c, "vertical", 0)

get_neighbors(h, c) ==
    [up |-> has_top_neighbor(h, c), left |-> has_left_neighbor(h, c),
     down |-> has_bottom_neighbor(h, c), right |-> has_right_neighbor(h, c)]

\* ceil(gap / 2)
HalfGap(gap) == (gap + 1) \div 2

\* LeafContainer::get_visible_area: the committed logical area, inset by
\* the half gap on every side with a neighbour and by the border all around
get_visible_area(h, n) ==
    LET half_gap_x == HalfGap(InnerGapsX)
        half_gap_y == HalfGap(InnerGapsY)
        neighbors == get_neighbors(h, n)
        a == h.logical_area[n]
        x == a.x + (IF neighbors.left THEN half_gap_x ELSE 0)
        width == a.w - (IF neighbors.left THEN half_gap_x ELSE 0)
                     - (IF neighbors.right THEN half_gap_x ELSE 0)
        y == a.y + (IF neighbors.up THEN half_gap_y ELSE 0)
        height == a.h - (IF neighbors.up THEN half_gap_y ELSE 0)
                      - (IF neighbors.down THEN half_gap_y ELSE 0)
    IN [x |-> x + BorderSize, y |-> y + BorderSize,
        w |-> width - 2 * BorderSize, h |-> height - 2 * BorderSize]

\* the rectangles LeafContainer::commit_changes hands to
\* window_controller.set_rectangle (previous and new visible area): one when
\* an area is staged and the window is not fullscreen, none otherwise
LeafCommitSends(h, n) ==
    LET g == LeafCommitChanges(h, n)
    IN IF h.next_logical_area[n] # <<>> /\ ~is_fullscreen(g, n)
       THEN <<[previous |-> get_visible_area(h, n), next |-> get_visible_area(g, n)]>>
       ELSE <<>>

\* the tree's place_new_window and confirm_window: the given lane, or the
\* root lane when none (0) is given
TreeConfirmWindowNoFallback(h, container) ==
    IF container = 0 THEN h ELSE confirm_window(h, container)

TreeConfirmWindow(h, container) ==
    LET par == IF container # 0 THEN container ELSE h.root_lane
    IN confirm_window(h, par)

\* ----------------------------------------------------- reachability
RECURSIVE Descendants(_, _)
Descendants(h, n) ==
    {n} \cup UNION {Descendants(h, h.sub_nodes[n][i]) : i \in 1..Len(h.sub_nodes[n])}

InTree(h) == Descendants(h, h.root_lane)
LeavesOf(h) == {n \in InTree(h) : h.kind[n] = "leaf"}

\* the lanes of the subtree of n, in traversal order
RECURSIVE LaneOrder(_, _)
RECURSIVE LaneOrderFrom(_, _, _)
LaneOrderFrom(h, subs, i) ==
    IF i > Len(subs) THEN <<>>
    ELSE LaneOrder(h, subs[i]) \o LaneOrderFrom(h, subs, i + 1)
LaneOrder(h, n) ==
    IF h.kind[n] # "lane" THEN <<>>
    ELSE <<n>> \o LaneOrderFrom(h, h.sub_nodes[n], 1)

\* a container nobody holds any more is destroyed; the lanes of the tree
\* are renumbered in traversal order (the root comes first)
Collect(h) ==
    LET live == InTree(h)
        order == LaneOrder(h, h.root_lane)
        ren(n) == IF n = 0 \/ n \notin live THEN 0
                  ELSE IF h.kind[n] = "leaf" THEN n
                  ELSE MaxLeafIds + IndexOf(order, n)
        src(m) == IF m \in LeafIds THEN (IF m \in live THEN m ELSE 0)
                  ELSE IF m - MaxLeafIds <= Len(order) THEN order[m - MaxLeafIds]
                  ELSE 0
    IN [kind |-> [m \in Nodes |-> IF src(m) = 0 THEN "none" ELSE h.kind[src(m)]],
        parent |-> [m \in Nodes |-> IF src(m) = 0 THEN 0 ELSE ren(h.parent[src(m)])],
        sub_nodes |-> [m \in Nodes |->
            IF src(m) = 0 THEN <<>>
            ELSE [i \in 1..Len(h.sub_nodes[src(m)]) |-> ren(h.sub_nodes[src(m)][i])]],
        direction |-> [m \in Nodes |->
            IF src(m) = 0 THEN "horizontal" ELSE h.direction[src(m)]],
        logical_area |-> [m \in Nodes |->
            IF src(m) = 0 THEN NoArea ELSE h.logical_area[src(m)]],
        next_logical_area |-> [m \in Nodes |->
            IF src(m) = 0 THEN <<>> ELSE h.next_logical_area[src(m)]],
        win_state |-> [m \in Nodes |->
            IF src(m) = 0 THEN "restored" ELSE h.win_state[src(m)]],
        next_state |-> [m \in Nodes |->
            IF src(m) = 0 THEN "none" ELSE h.next_state[src(m)]],
        root_lane |-> ren(h.root_lane),
        fullscreen |-> h.fullscreen,
        active |-> ren(h.active),
        is_hidden |-> h.is_hidden,
        before_shown_state |-> [m \in Nodes |->
            IF src(m) = 0 THEN "none" ELSE h.before_shown_state[src(m)]]]

\* ------------------------------------------------------ TilingWindowTree
active_container(h) ==
    IF h.active # 0 /\ h.kind[h.active] = "leaf" THEN h.active ELSE 0

\* the result is 0 (nullptr), a leaf, or -1 when the reverse scan indexes an
\* empty child list (sub_nodes.size() - 1 wraps around): undefined behaviour
RECURSIVE get_closest_window_to_select_from_node(_, _, _)
RECURSIVE ScanReverse(_, _, _, _)
RECURSIVE ScanForward(_, _, _, _)

\* i is the 1-based position; the source's loop runs i0 = size-1 down to 1
ScanReverse(h, subs, i, d) ==
    IF i <= 1 THEN 0
    ELSE LET retval == get_closest_window_to_select_from_node(h, subs[i], d)
         IN IF retval # 0 THEN retval ELSE ScanReverse(h, subs, i - 1, d)

ScanForward(h, subs, i, d) ==
    IF i > Len(subs) THEN 0
    ELSE LET retval == get_closest_window_to_select_from_node(h, subs[i], d)
         IN IF retval # 0 THEN retval ELSE ScanForward(h, subs, i + 1, d)

\* get_closest_window_to_select_from_node as it would be without the
\* reverse scan
get_closest_window_forward_only(h, node, d) ==
    IF h.kind[node] = "leaf" THEN node
    ELSE ScanForward(h, h.sub_nodes[node], 1, d)

get_closest_window_to_select_from_node(h, node, d) ==
    IF h.kind[node] = "leaf" THEN node
    ELSE LET is_vertical == is_vertical_direction(d)
             is_negative == is_negative_direction(d)
             subs == h.sub_nodes[node]
             same_axis == \/ is_vertical /\ h.direction[node] = "vertical"
                          \/ ~is_vertical /\ h.direction[node] = "horizontal"
             rev == IF same_axis /\ is_negative
                    THEN (IF Len(subs) = 0 THEN 0 - 1
                          ELSE ScanReverse(h, subs, Len(subs), d))
                    ELSE 0
         IN IF rev # 0 THEN rev ELSE ScanForward(h, subs, 1, d)

RECURSIVE SelectClimb(_, _, _, _)
SelectClimb(h, current_node, par, d) ==
    LET is_vertical == is_vertical_direction(d)
        is_negative == is_negative_direction(d)
        grandparent_direction == h.direction[par]
        index == IndexOf(h.sub_nodes[par], current_node) - 1
        same_axis == \/ is_vertical /\ grandparent_direction = "vertical"
                     \/ ~is_vertical
                        /\ grandparent_direction \in {"horizontal", "tabbing"}
    IN IF same_axis /\ is_negative /\ index > 0
       THEN get_closest_window_to_select_from_node(h, h.sub_nodes[par][index], d)
       ELSE IF same_axis /\ ~is_negative /\ index < num_nodes(h, par) - 1
       THEN get_closest_window_to_select_from_node(h, h.sub_nodes[par][index + 2], d)
       ELSE IF h.parent[par] = 0 THEN 0
       ELSE SelectClimb(h, par, h.parent[par], d)

\* handle_select as it would be if the sign of the direction were ignored
handle_select_forward_only(h, from, d) ==
    IF h.parent[from] = 0 THEN 0
    ELSE SelectClimb(h, from, h.parent[from],
                     IF is_vertical_direction(d) THEN "down" ELSE "right")

handle_select(h, from, d) ==
    IF h.parent[from] = 0 THEN 0
    ELSE SelectClimb(h, from, h.parent[from], d)

\* handle_remove as it would be if it always detached the node itself
handle_remove_node_only(h, node) ==
    LET par == h.parent[node]
    IN IF par = 0 THEN [h |-> h, ret |-> 0]
       ELSE [h |-> remove(h, par, node), ret |-> par]

\* returns the heap and the lane to commit (0 = nullptr)
handle_remove(h, node) ==
    LET par == h.parent[node]
    IN IF par = 0 THEN [h |-> h, ret |-> 0]
       ELSE IF num_nodes(h, par) = 1 /\ h.parent[par] # 0
       THEN [h |-> remove(h, h.parent[par], par), ret |-> h.parent[par]]
       ELSE [h |-> remove(h, par, node), ret |-> par]

\* transfer_node as it would be if the node kept the back-reference to the
\* lane it came from
transfer_node_stale_parent(h, node, to) ==
    LET r == handle_remove(h, node)
        target_parent == r.h.parent[to]
        index == IndexOf(r.h.sub_nodes[target_parent], to) - 1
        g == graft_existing(r.h, target_parent, node, index + 1)
    IN [h |-> [g EXCEPT !.parent[node] = h.parent[node]],
        first |-> target_parent, second |-> r.ret]

\* transfer_node as it would be without the graft into the target's lane
transfer_node_without_graft(h, node, to) ==
    LET r == handle_remove(h, node)
    IN [h |-> r.h, first |-> r.h.parent[to], second |-> r.ret]

\* transfer_node as it would be if the node were grafted at the index of the
\* target, not behind it
transfer_node_before_target(h, node, to) ==
    LET r == handle_remove(h, node)
        target_parent == r.h.parent[to]
        index == IndexOf(r.h.sub_nodes[target_parent], to) - 1
    IN [h |-> graft_existing(r.h, target_parent, node, index),
        first |-> target_parent, second |-> r.ret]

transfer_node(h, node, to) ==
    LET r == handle_remove(h, node)
        target_parent == r.h.parent[to]
        index == IndexOf(r.h.sub_nodes[target_parent], to) - 1
    IN [h |-> graft_existing(r.h, target_parent, node, index + 1),
        first |-> target_parent, second |-> r.ret]

recalculate_root_node_area(h) ==
    commit_changes(set_logical_area(h, h.root_lane, ZoneExtents), h.root_lane)

\* needs a free identifier when the root has to be replaced
MoveNeedsNewRoot(h, from, d) ==
    /\ handle_select(h, from, d) = 0
    /\ h.parent[from] = h.root_lane
    /\ from_direction(d) # h.direction[h.root_lane]

\* handle_move as it would be if the new root kept the old root's scheme
handle_move_keeps_scheme(h, from, d) ==
    LET insert_node == handle_select(h, from, d)
        new == NewLaneId(h)
        wrapped == [h EXCEPT !.kind[new] = "lane",
                             !.logical_area[new] = h.logical_area[h.root_lane],
                             !.direction[new] = h.direction[h.root_lane]]
        grafted == graft_existing(wrapped, new, h.root_lane, 0)
        replaced == recalculate_root_node_area([grafted EXCEPT !.root_lane = new])
        h1 == IF h.parent[from] = h.root_lane THEN replaced ELSE h
    IN IF insert_node # 0
       THEN [h |-> h, traversal_type |-> "insert", node |-> insert_node]
       ELSE IF h.parent[from] = h.root_lane
               /\ from_direction(d) = h.direction[h.root_lane]
       THEN [h |-> h, traversal_type |-> "invalid", node |-> 0]
       ELSE [h |-> h1,
             traversal_type |-> IF is_negative_direction(d) THEN "prepend"
                                ELSE "append",
             node |-> h1.root_lane]

\* handle_move as it would be if the sign of the direction were ignored when
\* no select target is found
handle_move_always_append(h, from, d) ==
    LET insert_node == handle_select(h, from, d)
        new == NewLaneId(h)
        wrapped == [h EXCEPT !.kind[new] = "lane",
                             !.logical_area[new] = h.logical_area[h.root_lane],
                             !.direction[new] = from_direction(d)]
        grafted == graft_existing(wrapped, new, h.root_lane, 0)
        replaced == recalculate_root_node_area([grafted EXCEPT !.root_lane = new])
        h1 == IF h.parent[from] = h.root_lane THEN replaced ELSE h
    IN IF insert_node # 0
       THEN [h |-> h, traversal_type |-> "insert", node |-> insert_node]
       ELSE IF h.parent[from] = h.root_lane
               /\ from_direction(d) = h.direction[h.root_lane]
       THEN [h |-> h, traversal_type |-> "invalid", node |-> 0]
       ELSE [h |-> h1, traversal_type |-> "append", node |-> h1.root_lane]

\* handle_move as it would be if it replaced the root without comparing the
\* root's scheme with the axis of the direction
handle_move_without_scheme_test(h, from, d) ==
    LET insert_node == handle_select(h, from, d)
        new == NewLaneId(h)
        wrapped == [h EXCEPT !.kind[new] = "lane",
                             !.logical_area[new] = h.logical_area[h.root_lane],
                             !.direction[new] = from_direction(d)]
        grafted == graft_existing(wrapped, new, h.root_lane, 0)
        replaced == recalculate_root_node_area([grafted EXCEPT !.root_lane = new])
        h1 == IF h.parent[from] = h.root_lane /\ new # 0 THEN replaced ELSE h
    IN IF insert_node # 0
       THEN [h |-> h, traversal_type |-> "insert", node |-> insert_node]
       ELSE [h |-> h1,
             traversal_type |-> IF is_negative_direction(d) THEN "prepend"
                                ELSE "append",
             node |-> h1.root_lane]

handle_move(h, from, d) ==
    LET insert_node == handle_select(h, from, d)
        new == NewLaneId(h)
        wrapped == [h EXCEPT !.kind[new] = "lane",
                             !.logical_area[new] = h.logical_area[h.root_lane],
                             !.direction[new] = from_direction(d)]
        grafted == graft_existing(wrapped, new, h.root_lane, 0)
        replaced == recalculate_root_node_area([grafted EXCEPT !.root_lane = new])
        h1 == IF h.parent[from] = h.root_lane THEN replaced ELSE h
    IN IF insert_node # 0
       THEN [h |-> h, traversal_type |-> "insert", node |-> insert_node]
       ELSE IF h.parent[from] = h.root_lane
               /\ from_direction(d) = h.direction[h.root_lane]
       THEN [h |-> h, traversal_type |-> "invalid", node |-> 0]
       ELSE [h |-> h1,
             traversal_type |-> IF is_negative_direction(d) THEN "prepend"
                                ELSE "append",
             node |-> h1.root_lane]

\* returns the heap and the boolean result
move_container(h, d, container) ==
    LET t == handle_move(h, container, d)
        target_node == t.node
        target_parent == t.h.parent[target_node]
        active_parent == t.h.parent[container]
        tr == transfer_node(t.h, container, target_node)
        lane_node == t.node
        removed == handle_remove(t.h, container).h
    IN IF h.fullscreen THEN [h |-> h, ret |-> FALSE]
       ELSE CASE t.traversal_type = "insert" ->
                 IF target_parent = 0 THEN [h |-> h, ret |-> FALSE]
                 ELSE IF active_parent = target_parent
                 THEN [h |-> commit_changes(
                                swap_nodes(t.h, active_parent, container, target_node),
                                active_parent),
                       ret |-> TRUE]
                 ELSE [h |-> commit_changes(commit_changes(tr.h, tr.first), tr.second),
                       ret |-> TRUE]
         [] t.traversal_type = "append" ->
                 [h |-> commit_changes(
                            graft_existing(removed, lane_node, container,
                                           num_nodes(removed, lane_node)),
                            lane_node),
                  ret |-> TRUE]
         [] t.traversal_type = "prepend" ->
                 [h |-> commit_changes(
                            graft_existing(removed, lane_node, container, 0),
                            lane_node),
                  ret |-> TRUE]
         [] OTHER -> [h |-> h, ret |-> FALSE]

\* the calls move_container makes on the tree, in their order, each with the
\* tree it leaves behind
MoveStepsOf(t, h, container, graft_first) ==
    LET target_node == t.node
        target_parent == t.h.parent[target_node]
        active_parent == t.h.parent[container]
        swapped == swap_nodes(t.h, active_parent, container, target_node)
        r == handle_remove(t.h, container)
        tr == transfer_node(t.h, container, target_node)
        lane_node == t.node
        index == IF t.traversal_type = "append" THEN num_nodes(r.h, lane_node) ELSE 0
        grafted == graft_existing(r.h, lane_node, container, index)
        start == <<[call |-> "handle_move", h |-> t.h]>>
    IN IF h.fullscreen THEN <<>>
       ELSE CASE t.traversal_type = "insert" ->
                 IF target_parent = 0 THEN start
                 ELSE IF active_parent = target_parent
                 THEN start \o
                      <<[call |-> "swap_nodes", h |-> swapped],
                        [call |-> "commit_changes",
                         h |-> commit_changes(swapped, active_parent)]>>
                 ELSE start \o
                      <<[call |-> "handle_remove", h |-> r.h],
                        [call |-> "graft_existing", h |-> tr.h],
                        [call |-> "commit_changes",
                         h |-> commit_changes(tr.h, tr.first)],
                        [call |-> "commit_changes",
                         h |-> commit_changes(commit_changes(tr.h, tr.first),
                                              tr.second)]>>
         [] t.traversal_type \in {"append", "prepend"} ->
                 IF graft_first
                 THEN start \o
                      <<[call |-> "handle_remove", h |-> r.h],
                        [call |-> "graft_existing", h |-> grafted],
                        [call |-> "commit_changes",
                         h |-> commit_changes(grafted, lane_node)]>>
                 ELSE start \o
                      <<[call |-> "handle_remove", h |-> r.h],
                        [call |-> "commit_changes",
                         h |-> commit_changes(r.h, lane_node)],
                        [call |-> "graft_existing",
                         h |-> graft_existing(commit_changes(r.h, lane_node),
                                              lane_node, container, index)]>>
         [] OTHER -> start

\* move_container as it would be if append and prepend committed the lane
\* before grafting the node into it
move_container_steps_commit_first(h, d, container) ==
    MoveStepsOf(handle_move(h, container, d), h, container, FALSE)

move_container_steps(h, d, container) ==
    MoveStepsOf(handle_move(h, container, d), h, container, TRUE)

LayoutNeedsNewLane(h, container) ==
    /\ ~h.fullscreen
    /\ h.parent[container] # 0
    /\ num_nodes(h, h.parent[container]) > 1
    /\ h.direction[h.parent[container]] # "tabbing"

\* handle_layout_scheme as it would be if it never created a lane
handle_layout_scheme_in_place(h, scheme, container) ==
    LET par == h.parent[container]
    IN IF h.fullscreen \/ par = 0 THEN h
       ELSE set_direction(h, par, scheme)

handle_layout_scheme(h, scheme, container) ==
    LET par == h.parent[container]
        conv == convert_to_parent(h, par, container)
    IN IF h.fullscreen \/ par = 0 THEN h
       ELSE IF num_nodes(h, par) > 1 /\ h.direction[par] # "tabbing"
       THEN set_direction(conv, conv.parent[container], scheme)
       ELSE set_direction(h, par, scheme)

advise_fullscreen_container(h, container) ==
    [h EXCEPT !.active = container, !.fullscreen = TRUE]

\* advise_restored_container as it would be if it staged the area of the
\* output instead of the leaf's own logical area
advise_restored_container_output_area(h, container) ==
    IF active_container(h) # 0 /\ active_container(h) = container /\ h.fullscreen
    THEN LeafCommitChanges(
             set_logical_area([h EXCEPT !.fullscreen = FALSE], container,
                              h.logical_area[h.root_lane]),
             container)
    ELSE h

\* advise_restored_container as it would be if it did not compare the leaf
\* with the active container
advise_restored_container_any_leaf(h, container) ==
    IF h.fullscreen
    THEN LeafCommitChanges(
             set_logical_area([h EXCEPT !.fullscreen = FALSE], container,
                              get_logical_area(h, container)),
             container)
    ELSE h

advise_restored_container(h, container) ==
    IF active_container(h) # 0 /\ active_container(h) = container /\ h.fullscreen
    THEN LeafCommitChanges(
             set_logical_area([h EXCEPT !.fullscreen = FALSE], container,
                              get_logical_area(h, container)),
             container)
    ELSE h

toggle_fullscreen(h, container) ==
    IF h.fullscreen THEN advise_restored_container(h, container)
    ELSE advise_fullscreen_container(h, container)

LeafToggleFullscreen(h, n) ==
    toggle_fullscreen(
        LeafCommitChanges(
            [h EXCEPT !.next_state[n] = IF is_fullscreen(h, n) THEN "restored"
                                        ELSE "fullscreen"], n),
        n)

handle_modify(h, n, state) ==
    LET h1 == LeafCommitChanges([h EXCEPT !.next_state[n] = state], n)
    IN IF state # h.win_state[n]
       THEN (IF state = "fullscreen" THEN advise_fullscreen_container(h1, n)
             ELSE IF state = "restored" THEN advise_restored_container(h1, n)
             ELSE h1)
       ELSE h

\* TilingWindowTree::constrain: returns the heap and the boolean result (the
\* clipping of the windows is no state of the model)
constrain(h, container) ==
    IF h.is_hidden THEN [h |-> h, ret |-> FALSE]
    ELSE [h |-> h, ret |-> TRUE]

\* advise_delete_window calls commit_changes on the lane handle_remove
\* returns; for a container without a parent that is a null pointer
DeleteIsUndefined(h, container) == handle_remove(h, container).ret = 0

\* ----------------------------------------------------- hide and show
LeafHide(h, n) ==
    LeafCommitChanges([h EXCEPT !.before_shown_state[n] = h.win_state[n],
                                !.next_state[n] = "hidden"], n)

LeafShow(h, n) ==
    LeafCommitChanges([h EXCEPT !.next_state[n] = h.before_shown_state[n],
                                !.before_shown_state[n] = "none"], n)

\* the leaves below a container in traversal order (foreach_node)
RECURSIVE LeafOrder(_, _)
RECURSIVE LeafOrderFrom(_, _, _)
LeafOrderFrom(h, subs, i) ==
    IF i > Len(subs) THEN <<>>
    ELSE LeafOrder(h, subs[i]) \o LeafOrderFrom(h, subs, i + 1)

LeafOrder(h, n) ==
    IF h.kind[n] = "leaf" THEN <<n>> ELSE LeafOrderFrom(h, h.sub_nodes[n], 1)

\* ParentContainer::hide and show: every leaf below the lane, in order
RECURSIVE HideAll(_, _, _)
HideAll(h, order, i) ==
    IF i > Len(order) THEN h ELSE HideAll(LeafHide(h, order[i]), order, i + 1)

RECURSIVE ShowAll(_, _, _)
ShowAll(h, order, i) ==
    IF i > Len(order) THEN h ELSE ShowAll(LeafShow(h, order[i]), order, i + 1)

\* the last container in traversal order that is fullscreen (0 = nullptr)
RECURSIVE LastFullscreen(_, _, _)
LastFullscreen(h, order, i) ==
    IF i = 0 THEN 0
    ELSE IF is_fullscreen(h, order[i]) THEN order[i]
    ELSE LastFullscreen(h, order, i - 1)

hide(h) ==
    IF h.is_hidden THEN h
    ELSE HideAll([h EXCEPT !.is_hidden = TRUE], LeafOrder(h, h.root_lane), 1)

\* show without the test of the hidden flag
show_unguarded(h) ==
    LET order == LeafOrder(h, h.root_lane)
        h1 == [ShowAll(h, order, 1) EXCEPT !.is_hidden = FALSE]
    IN [h |-> h1, node |-> LastFullscreen(h1, order, Len(order))]

\* show that forgets to restore the leaves
show_without_restore(h) ==
    IF ~h.is_hidden THEN [h |-> h, node |-> 0]
    ELSE [h |-> [h EXCEPT !.is_hidden = FALSE], node |-> 0]

\* show that returns the last leaf whether or not it is fullscreen
show_returns_last_leaf(h) ==
    LET order == LeafOrder(h, h.root_lane)
        h1 == [ShowAll(h, order, 1) EXCEPT !.is_hidden = FALSE]
    IN IF ~h.is_hidden THEN [h |-> h, node |-> 0]
       ELSE [h |-> h1, node |-> IF order = <<>> THEN 0 ELSE order[Len(order)]]

\* returns the heap and the fullscreen leaf to raise (0 = nullptr)
show(h) ==
    LET order == LeafOrder(h, h.root_lane)
        h1 == [ShowAll(h, order, 1) EXCEPT !.is_hidden = FALSE]
    IN IF ~h.is_hidden THEN [h |-> h, node |-> 0]
       ELSE [h |-> h1, node |-> LastFullscreen(h1, order, Len(order))]

advise_delete_window(h, container) ==
    LET h1 == IF active_container(h) = container /\ h.fullscreen
              THEN [h EXCEPT !.fullscreen = FALSE] ELSE h
        r == handle_remove(h1, container)
    IN commit_changes(r.h, r.ret)

\* the candidate rectangles of the lane's children, in order; <<>> when a
\* candidate fails the minimum check.  The check compares an int with the
\* size_t minimum, so the extent is converted to unsigned first: a negative
\* extent becomes a huge value and passes.
RECURSIVE PendingNodeResizes(_, _, _, _, _, _, _)
\* the candidate rectangles as they would be if every sibling kept its origin
PendingNodeResizes_origins_kept(h, nodes, node, is_vertical, resize_amount, for_others, acc) ==
    LET i == Len(acc) + 1
    IN IF i > Len(nodes) THEN acc
       ELSE LET other_node == nodes[i]
                area == get_logical_area(h, other_node)
                delta == IF other_node = node THEN resize_amount ELSE for_others
                other_rect == IF is_vertical THEN [area EXCEPT !.h = @ + delta]
                              ELSE [area EXCEPT !.w = @ + delta]
                ext == IF is_vertical THEN other_rect.h ELSE other_rect.w
                min == IF is_vertical THEN get_min_height(h, other_node)
                       ELSE get_min_width(h, other_node)
            IN IF ext >= 0 /\ ext <= min THEN <<>>
               ELSE PendingNodeResizes(h, nodes, node, is_vertical, resize_amount,
                                       for_others, Append(acc, other_rect))

PendingNodeResizes(h, nodes, node, is_vertical, resize_amount, for_others, acc) ==
    LET i == Len(acc) + 1
    IN IF i > Len(nodes) THEN acc
       ELSE LET other_node == nodes[i]
                area == get_logical_area(h, other_node)
                delta == IF other_node = node THEN resize_amount ELSE for_others
                sized == IF is_vertical THEN [area EXCEPT !.h = @ + delta]
                         ELSE [area EXCEPT !.w = @ + delta]
                other_rect ==
                    IF i = 1 THEN sized
                    ELSE IF is_vertical
                    THEN [sized EXCEPT !.y = acc[i - 1].y + acc[i - 1].h]
                    ELSE [sized EXCEPT !.x = acc[i - 1].x + acc[i - 1].w]
                ext == IF is_vertical THEN other_rect.h ELSE other_rect.w
                min == IF is_vertical THEN get_min_height(h, other_node)
                       ELSE get_min_width(h, other_node)
            IN IF ext >= 0 /\ ext <= min THEN <<>>
               ELSE PendingNodeResizes(h, nodes, node, is_vertical, resize_amount,
                                       for_others, Append(acc, other_rect))

RECURSIVE SumPending(_, _, _)
SumPending(p, is_vertical, i) ==
    IF i > Len(p) THEN 0
    ELSE (IF is_vertical THEN p[i].h ELSE p[i].w) + SumPending(p, is_vertical, i + 1)

RECURSIVE ApplyPending(_, _, _, _)
ApplyPending(h, nodes, p, i) ==
    IF i > Len(nodes) THEN h
    ELSE ApplyPending(commit_changes(set_logical_area(h, nodes[i], p[i]), nodes[i]),
                      nodes, p, i + 1)

\* the resize amount as it would be if it were not negated for left and up
resize_amount_not_negated(d, amount) == amount

resize_amount_of(d, amount) ==
    IF d \in {"left", "up"} THEN 0 - amount ELSE amount

\* returns the heap, what happened ("noparent", "single", "aborted",
\* "changed"), and the lane and child the geometry was computed for
RECURSIVE handle_resize(_, _, _, _)
\* handle_resize as it would be if it climbed past a lane of the axis that
\* has a single child
handle_resize_past_single_child(h, node, d, amount) ==
    LET par == h.parent[node]
        is_vertical == d \in {"up", "down"}
        is_main_axis_movement ==
            \/ is_vertical /\ h.direction[par] = "vertical"
            \/ ~is_vertical /\ h.direction[par] = "horizontal"
        resize_amount == resize_amount_of(d, amount)
        nodes == h.sub_nodes[par]
        for_others == (0 - resize_amount) \div (Len(nodes) - 1)
        pending == PendingNodeResizes(h, nodes, node, is_vertical, resize_amount,
                                      for_others, <<>>)
        total == SumPending(pending, is_vertical, 1)
        leftover == Extent(h.logical_area[par], from_direction(d)) - total
        n == Len(pending)
        folded == IF is_vertical
                  THEN [pending EXCEPT ![n] = [@ EXCEPT !.h = @ + leftover]]
                  ELSE [pending EXCEPT ![n] = [@ EXCEPT !.w = @ + leftover]]
    IN IF par = 0
       THEN [h |-> h, outcome |-> "noparent", lane |-> 0, target |-> node]
       ELSE IF ~is_main_axis_movement \/ num_nodes(h, par) = 1
       THEN handle_resize(h, par, d, amount)
       ELSE IF pending = <<>>
       THEN [h |-> h, outcome |-> "aborted", lane |-> par, target |-> node]
       ELSE [h |-> ApplyPending(h, nodes, folded, 1), outcome |-> "changed",
             lane |-> par, target |-> node]

handle_resize(h, node, d, amount) ==
    LET par == h.parent[node]
        is_vertical == d \in {"up", "down"}
        is_main_axis_movement ==
            \/ is_vertical /\ h.direction[par] = "vertical"
            \/ ~is_vertical /\ h.direction[par] = "horizontal"
        resize_amount == resize_amount_of(d, amount)
        nodes == h.sub_nodes[par]
        for_others == (0 - resize_amount) \div (Len(nodes) - 1)
        pending == PendingNodeResizes(h, nodes, node, is_vertical, resize_amount,
                                      for_others, <<>>)
        total == SumPending(pending, is_vertical, 1)
        leftover == Extent(h.logical_area[par], from_direction(d)) - total
        n == Len(pending)
        folded == IF is_vertical
                  THEN [pending EXCEPT ![n] = [@ EXCEPT !.h = @ + leftover]]
                  ELSE [pending EXCEPT ![n] = [@ EXCEPT !.w = @ + leftover]]
    IN IF par = 0
       THEN [h |-> h, outcome |-> "noparent", lane |-> 0, target |-> node]
       ELSE IF is_main_axis_movement /\ num_nodes(h, par) = 1
       THEN [h |-> h, outcome |-> "single", lane |-> par, target |-> node]
       ELSE IF ~is_main_axis_movement
       THEN handle_resize(h, par, d, amount)
       ELSE IF pending = <<>>
       THEN [h |-> h, outcome |-> "aborted", lane |-> par, target |-> node]
       ELSE [h |-> ApplyPending(h, nodes, folded, 1), outcome |-> "changed",
             lane |-> par, target |-> node]

\* ---------------------------------------------------------------- init
\* what `last` records: the handler, its boolean result, what it did; for a
\* fullscreen toggle the leaf and its logical area before the toggles; for a
\* resize the direction and the amount; for a move the direction and
\* whether handle_move replaced the root; for an operation that is refused
\* while a window is fullscreen, whether the flag was set when it was
\* called (fs) and whether it left the program state as it was (same);
\* for hide and show whether the tree was hidden when called (outcome),
\* and the window states of the leaves before the hide (snap)
NoOp == [op |-> "init", ret |-> FALSE, outcome |-> "none", node |-> 0,
         area |-> NoArea, dir |-> "none", amount |-> 0, wrap |-> FALSE,
         fs |-> FALSE, same |-> FALSE, snap |-> <<>>]

Init ==
    /\ kind = [n \in Nodes |-> IF n = MaxLeafIds + 1 THEN "lane" ELSE "none"]
    /\ parent = [n \in Nodes |-> 0]
    /\ sub_nodes = [n \in Nodes |-> <<>>]
    /\ direction = [n \in Nodes |-> "horizontal"]
    /\ logical_area = [n \in Nodes |-> IF n = MaxLeafIds + 1 THEN ZoneExtents ELSE NoArea]
    /\ next_logical_area = [n \in Nodes |-> <<>>]
    /\ win_state = [n \in Nodes |-> "restored"]
    /\ next_state = [n \in Nodes |-> "none"]
    /\ root_lane = MaxLeafIds + 1
    /\ is_active_window_fullscreen = FALSE
    /\ active = 0
    /\ is_hidden = FALSE
    /\ before_shown_state = [n \in Nodes |-> "none"]
    /\ mode = "normal"
    /\ containers = <<>>
    /\ crashed = FALSE
    /\ resizes = 0
    /\ last = NoOp
    /\ output_list = <<>>
    /\ active_output = 0
    /\ hosted = [o \in OutputIds |-> {}]
    /\ orphaned_window_list = <<>>
    /\ windows = {}
    /\ cursor_output = 0
    /\ running = FALSE
    /\ queued_animations = <<>>
    /\ next_handle = 1
    /\ anim_pc = "start"
    /\ action_queue = <<>>
    /\ invoked = <<>>
    /\ stop_pc = "idle"
    /\ idle_batches = 0
    /\ pending_commands = <<>>
    /\ ipc_queue = 0
    /\ executed = <<>>
    /\ accepted = <<>>

\* every container that exists is in the tree (Collect destroys the others)
Leaves == {n \in Nodes : kind[n] = "leaf"}
Lanes == {n \in Nodes : kind[n] = "lane"}

\* -------------------------------------------------------------- actions
\* place_new_window followed by confirm_window for one new window, with no
\* lane given (0) or in the lane of the active container
PlaceWindowWide(lane) ==
    /\ ~crashed
    /\ NewLeafId(Heap) # 0
    /\ lane = 0 \/ (active # 0 /\ lane = parent[active])
    /\ SetHeap(TreeConfirmWindow(Heap, lane))
    /\ last' = [NoOp EXCEPT !.op = "place", !.ret = TRUE,
                       !.outcome = "none"]
    /\ UNCHANGED <<crashed, resizes, mode, containers, subsystem_vars>>

PlaceWindow(lane) ==
    /\ Cardinality(Leaves) < MaxLeaves
    /\ PlaceWindowWide(lane)

\* the window of a leaf is destroyed: the tree's advise_delete_window, then
\* the policy unfocuses the container and the last reference goes away
DeleteWindow(n) ==
    /\ ~crashed
    /\ kind[n] = "leaf"
    /\ LET h1 == advise_delete_window(Heap, n)
           h2 == [h1 EXCEPT !.active = IF @ = n THEN 0 ELSE @]
       IN SetHeap(Collect(h2))
    /\ last' = [NoOp EXCEPT !.op = "delete", !.ret = TRUE,
                       !.outcome = IF handle_remove(Heap, n).ret = parent[n]
                                   THEN "node" ELSE "lane"]
    /\ UNCHANGED <<crashed, resizes, mode, containers, subsystem_vars>>

\* a focus-gained notification for the window of a leaf (the tree's
\* advise_focus_gained changes no state of the model, and `last` keeps the
\* handler that last acted on the tree)
FocusGained(n) ==
    /\ ~crashed
    /\ kind[n] = "leaf"
    /\ n # active
    /\ mode # "selecting"
    /\ active' = n
    /\ UNCHANGED <<last, kind, parent, sub_nodes, direction, logical_area,
                   next_logical_area, win_state, next_state, root_lane,
                   is_active_window_fullscreen, is_hidden, before_shown_state,
                   crashed, resizes, mode, containers, subsystem_vars>>

SelectIsUndefined(n, d) == ~is_active_window_fullscreen /\ handle_select(Heap, n, d) < 0

\* select_next as it would be without the fullscreen test
select_next_unguarded(h, d, n) ==
    LET node == handle_select(h, n, d)
    IN IF node = 0 THEN [h |-> h, ret |-> FALSE]
       ELSE [h |-> [h EXCEPT !.active = node], ret |-> TRUE]

select_next(h, d, n) ==
    LET node == handle_select(h, n, d)
    IN IF h.fullscreen \/ node = 0 THEN [h |-> h, ret |-> FALSE]
       ELSE [h |-> [h EXCEPT !.active = node], ret |-> TRUE]

SelectNext(n, d) ==
    /\ ~crashed
    /\ n = active
    /\ ~SelectIsUndefined(n, d)
    /\ LET r == select_next(Heap, d, n)
       IN /\ SetHeap(r.h)
          /\ last' = [NoOp EXCEPT !.op = "select", !.ret = r.ret,
                       !.outcome = "none", !.dir = d,
                       !.fs = is_active_window_fullscreen,
                       !.same = (r.h = Heap)]
    /\ UNCHANGED <<crashed, resizes, mode, containers, subsystem_vars>>

MoveContainer(n, d) ==
    /\ ~crashed
    /\ n = active
    /\ ~SelectIsUndefined(n, d)
    /\ (~is_active_window_fullscreen /\ MoveNeedsNewRoot(Heap, n, d)) => NewLaneId(Heap) # 0
    /\ LET t == handle_move(Heap, n, d)
           r == move_container(Heap, d, n)
       IN /\ SetHeap(Collect(r.h))
          /\ last' = [NoOp EXCEPT !.op = "move", !.ret = r.ret,
                       !.outcome = IF is_active_window_fullscreen THEN "fullscreen"
                                   ELSE t.traversal_type,
                       !.dir = d,
                       !.wrap = ~is_active_window_fullscreen
                                /\ MoveNeedsNewRoot(Heap, n, d),
                       !.fs = is_active_window_fullscreen,
                       !.same = (Collect(r.h) = Heap)]
    /\ UNCHANGED <<crashed, resizes, mode, containers, subsystem_vars>>

\* select_next or move_container reads sub_nodes[size() - 1] of an empty
\* lane: the behaviour is undefined, the process is taken to die
SelectCrash(n, d) ==
    /\ ~crashed
    /\ n = active
    /\ SelectIsUndefined(n, d)
    /\ crashed' = TRUE
    /\ last' = [NoOp EXCEPT !.op = "crash", !.ret = FALSE,
                       !.outcome = "none"]
    /\ UNCHANGED <<kind, parent, sub_nodes, direction, logical_area,
                   next_logical_area, win_state, next_state, root_lane,
                   is_active_window_fullscreen, active, is_hidden,
                   before_shown_state, resizes, mode, containers, subsystem_vars>>

resize_container(h, d, n, amount) ==
    IF h.fullscreen
    THEN [h |-> h, ret |-> FALSE, outcome |-> "fullscreen", lane |-> 0, target |-> n]
    ELSE LET r == handle_resize(h, n, d, amount)
         IN [h |-> r.h, ret |-> TRUE, outcome |-> r.outcome, lane |-> r.lane,
             target |-> r.target]

ResizeContainer(n, d, amount) ==
    /\ ~crashed
    /\ n = active
    /\ LET r == resize_container(Heap, d, n, amount)
       IN /\ r.outcome = "changed" => resizes < MaxResizes
          /\ SetHeap(r.h)
          /\ resizes' = IF r.outcome = "changed" THEN resizes + 1 ELSE resizes
          /\ last' = [NoOp EXCEPT !.op = "resize", !.ret = r.ret,
                       !.outcome = r.outcome, !.dir = d, !.amount = amount,
                       !.fs = is_active_window_fullscreen,
                       !.same = (r.h = Heap)]
    /\ UNCHANGED <<crashed, mode, containers, subsystem_vars>>

\* request_horizontal_layout, request_vertical_layout, requested_tabbing_layout
RequestLayout(n, scheme) ==
    /\ ~crashed
    /\ n = active
    /\ LayoutNeedsNewLane(Heap, n) => NewLaneId(Heap) # 0
    /\ SetHeap(Collect(handle_layout_scheme(Heap, scheme, n)))
    /\ last' = [NoOp EXCEPT !.op = "layout", !.ret = TRUE,
                       !.outcome = IF LayoutNeedsNewLane(Heap, n) THEN "wrapped"
                                   ELSE "none",
                       !.fs = is_active_window_fullscreen,
                       !.same = (Collect(handle_layout_scheme(Heap, scheme, n)) = Heap)]
    /\ UNCHANGED <<crashed, resizes, mode, containers, subsystem_vars>>

toggle_layout(h, n) ==
    LET par == h.parent[n]
    IN IF par = 0 THEN h
       ELSE IF h.direction[par] = "horizontal"
       THEN handle_layout_scheme(h, "vertical", n)
       ELSE IF h.direction[par] = "vertical"
       THEN handle_layout_scheme(h, "horizontal", n)
       ELSE h

ToggleLayout(n) ==
    /\ ~crashed
    /\ n = active
    /\ LayoutNeedsNewLane(Heap, n) => NewLaneId(Heap) # 0
    /\ SetHeap(Collect(toggle_layout(Heap, n)))
    /\ last' = [NoOp EXCEPT !.op = "toggle_layout", !.ret = TRUE,
                       !.outcome = "none",
                       !.fs = is_active_window_fullscreen,
                       !.same = (Collect(toggle_layout(Heap, n)) = Heap)]
    /\ UNCHANGED <<crashed, resizes, mode, containers, subsystem_vars>>

ToggleFullscreen(n) ==
    /\ ~crashed
    /\ n = active
    /\ SetHeap(LeafToggleFullscreen(Heap, n))
    /\ LET twice == last.op = "toggle_fullscreen" /\ last.node = n
       IN last' = [NoOp EXCEPT !.op = "toggle_fullscreen", !.ret = TRUE,
                       !.outcome = IF twice THEN "twice" ELSE "once",
                       !.node = n,
                       !.area = IF twice THEN last.area
                                ELSE get_logical_area(Heap, n)]
    /\ UNCHANGED <<crashed, resizes, mode, containers, subsystem_vars>>

\* the workspace of the tree is hidden
Hide ==
    /\ ~crashed
    /\ SetHeap(hide(Heap))
    /\ last' = [NoOp EXCEPT !.op = "hide", !.ret = TRUE,
                       !.outcome = IF is_hidden THEN "was_hidden" ELSE "was_shown",
                       !.same = (hide(Heap) = Heap),
                       !.snap = IF is_hidden THEN <<>>
                                ELSE [n \in Leaves |-> win_state[n]]]
    /\ UNCHANGED <<crashed, resizes, mode, containers, subsystem_vars>>

\* the workspace of the tree is shown; `ret` tells whether a fullscreen leaf
\* was returned, `after_hide` that the show directly follows the hide
Show ==
    /\ ~crashed
    /\ LET r == show(Heap)
       IN /\ SetHeap(r.h)
          /\ last' = [NoOp EXCEPT !.op = "show", !.ret = (r.node # 0),
                       !.outcome = IF ~is_hidden THEN "was_shown"
                                   ELSE IF last.op = "hide" /\ last.outcome = "was_shown"
                                   THEN "after_hide" ELSE "was_hidden",
                       !.same = (r.h = Heap),
                       !.node = r.node,
                       !.snap = IF is_hidden /\ last.op = "hide"
                                   /\ last.outcome = "was_shown"
                                THEN last.snap ELSE <<>>]
    /\ UNCHANGED <<crashed, resizes, mode, containers, subsystem_vars>>

\* a client asks for a window state
HandleModify(n, state) ==
    /\ ~crashed
    /\ kind[n] = "leaf"
    /\ SetHeap(handle_modify(Heap, n, state))
    /\ last' = [NoOp EXCEPT !.op = "modify", !.ret = TRUE,
                       !.outcome = "none"]
    /\ UNCHANGED <<crashed, resizes, mode, containers, subsystem_vars>>

\* structure: placement, removal, focus, select, move and layout requests
NextTree ==
    \/ \E lane \in Nodes \cup {0} : PlaceWindow(lane)
    \/ \E n \in Nodes : DeleteWindow(n)
    \/ \E n \in Nodes : FocusGained(n)
    \/ \E n \in Nodes, d \in Directions : MoveContainer(n, d)
    \/ \E n \in Nodes, d \in Directions : SelectCrash(n, d)
    \/ \E n \in Nodes, s \in RequestableSchemes : RequestLayout(n, s)
    \/ \E n \in Nodes : ToggleLayout(n)

SpecTree == Init /\ [][NextTree]_vars

\* geometry: the lanes are built by placement and layout requests, then resized
NextResize ==
    \/ \E lane \in Nodes \cup {0} : PlaceWindow(lane)
    \/ \E n \in Nodes : FocusGained(n)
    \/ \E n \in Nodes, s \in RequestableSchemes : RequestLayout(n, s)
    \/ \E n \in Nodes, d \in Directions, a \in ResizeJumps : ResizeContainer(n, d, a)

SpecResize == Init /\ [][NextResize]_vars

\* request_vertical_layout on the only window of the tree
RequestVerticalFirst(n) ==
    /\ Cardinality(Leaves) = 1
    /\ RequestLayout(n, "vertical")

\* geometry of lanes with up to MaxLeafIds children; the first window may be
\* given the vertical scheme before the others are placed beside it
NextResizeWide ==
    \/ \E lane \in Nodes \cup {0} : PlaceWindowWide(lane)
    \/ \E n \in Nodes : FocusGained(n)
    \/ \E n \in Nodes : RequestVerticalFirst(n)
    \/ \E n \in Nodes, d \in Directions, a \in ResizeJumps : ResizeContainer(n, d, a)

SpecResizeWide == Init /\ [][NextResizeWide]_vars

\* directional select among up to MaxLeafIds windows in nested lanes
NextSelect ==
    \/ \E lane \in Nodes \cup {0} : PlaceWindowWide(lane)
    \/ \E n \in Nodes : FocusGained(n)
    \/ \E n \in Nodes, s \in RequestableSchemes : RequestLayout(n, s)
    \/ \E n \in Nodes, d \in Directions : SelectNext(n, d)

SpecSelect == Init /\ [][NextSelect]_vars

\* window states: fullscreen toggles, client requests, focus and removal
NextFullscreen ==
    \/ \E lane \in Nodes \cup {0} : PlaceWindow(lane)
    \/ \E n \in Nodes : DeleteWindow(n)
    \/ \E n \in Nodes : FocusGained(n)
    \/ \E n \in Nodes : ToggleFullscreen(n)
    \/ \E n \in Nodes, s \in WindowStates : HandleModify(n, s)

SpecFullscreen == Init /\ [][NextFullscreen]_vars

\* a resize request that arrives while a window is fullscreen
ResizeWhileFullscreen(n, d, amount) ==
    /\ is_active_window_fullscreen
    /\ ResizeContainer(n, d, amount)

\* a move request that arrives while a window is fullscreen
MoveWhileFullscreen(n, d) ==
    /\ is_active_window_fullscreen
    /\ MoveContainer(n, d)

\* the operations that are refused while a window is fullscreen, together
\* with what sets and clears the flag; select and layout requests arrive at
\* any time, move and resize requests while the flag is set
NextGuard ==
    \/ \E lane \in Nodes \cup {0} : PlaceWindow(lane)
    \/ \E n \in Nodes : FocusGained(n)
    \/ \E n \in Nodes : ToggleFullscreen(n)
    \/ \E n \in Nodes, d \in Directions : SelectNext(n, d)
    \/ \E n \in Nodes, d \in Directions : MoveWhileFullscreen(n, d)
    \/ \E n \in Nodes, d \in Directions, a \in ResizeJumps :
           ResizeWhileFullscreen(n, d, a)
    \/ \E n \in Nodes, scheme \in RequestableSchemes : RequestLayout(n, scheme)
    \/ \E n \in Nodes : ToggleLayout(n)

SpecGuard == Init /\ [][NextGuard]_vars

\* the operations of the tree applied to the root lane, a container that
\* has no parent
ParentlessResize(d, amount) ==
    /\ ~crashed
    /\ LET r == resize_container(Heap, d, root_lane, amount)
       IN /\ SetHeap(r.h)
          /\ last' = [NoOp EXCEPT !.op = "parentless_resize", !.ret = r.ret,
                       !.outcome = r.outcome, !.same = (r.h = Heap)]
    /\ UNCHANGED <<crashed, resizes, mode, containers, subsystem_vars>>

ParentlessSelect(d) ==
    /\ ~crashed
    /\ LET r == select_next(Heap, d, root_lane)
       IN /\ SetHeap(r.h)
          /\ last' = [NoOp EXCEPT !.op = "parentless_select", !.ret = r.ret,
                       !.same = (r.h = Heap)]
    /\ UNCHANGED <<crashed, resizes, mode, containers, subsystem_vars>>

ParentlessLayout(scheme) ==
    /\ ~crashed
    /\ LET h1 == handle_layout_scheme(Heap, scheme, root_lane)
       IN /\ SetHeap(h1)
          /\ last' = [NoOp EXCEPT !.op = "parentless_layout", !.ret = TRUE,
                       !.same = (h1 = Heap)]
    /\ UNCHANGED <<crashed, resizes, mode, containers, subsystem_vars>>

ParentlessConstrain ==
    /\ ~crashed
    /\ LET r == constrain(Heap, root_lane)
       IN /\ SetHeap(r.h)
          /\ last' = [NoOp EXCEPT !.op = "parentless_constrain", !.ret = r.ret,
                       !.same = (r.h = Heap)]
    /\ UNCHANGED <<crashed, resizes, mode, containers, subsystem_vars>>

\* advise_delete_window on the root lane: handle_remove returns nullptr and
\* commit_changes is called through it; the behaviour is undefined: the
\* process dies, or the call happens to do nothing
ParentlessDelete ==
    /\ ~crashed
    /\ DeleteIsUndefined(Heap, root_lane)
    /\ crashed' \in BOOLEAN
    /\ last' = [NoOp EXCEPT !.op = "parentless_delete", !.ret = FALSE,
                       !.same = TRUE]
    /\ UNCHANGED <<kind, parent, sub_nodes, direction, logical_area,
                   next_logical_area, win_state, next_state, root_lane,
                   is_active_window_fullscreen, active, is_hidden,
                   before_shown_state, resizes, mode, containers, subsystem_vars>>

NextParentless ==
    \/ \E lane \in Nodes \cup {0} : PlaceWindow(lane)
    \/ \E n \in Nodes : FocusGained(n)
    \/ \E n \in Nodes, scheme \in RequestableSchemes : RequestLayout(n, scheme)
    \/ \E d \in Directions, a \in ResizeJumps : ParentlessResize(d, a)
    \/ \E d \in Directions : ParentlessSelect(d)
    \/ \E scheme \in RequestableSchemes : ParentlessLayout(scheme)
    \/ ParentlessConstrain
    \/ ParentlessDelete

SpecParentless == Init /\ [][NextParentless]_vars

\* visibility: windows are placed, focused and made fullscreen, and the
\* workspace is hidden and shown
NextHide ==
    \/ \E lane \in Nodes \cup {0} : PlaceWindow(lane)
    \/ \E n \in Nodes : FocusGained(n)
    \/ \E n \in Nodes : ToggleFullscreen(n)
    \/ Hide
    \/ Show

SpecHide == Init /\ [][NextHide]_vars

\* the rectangles staged on leaves
StagedAreas == {[x |-> 0, y |-> 0, w |-> 400, h |-> 800],
                [x |-> 400, y |-> 0, w |-> 600, h |-> 800]}

\* LeafContainer::set_logical_area on a leaf of the tree
StageArea(n, r) ==
    /\ ~crashed
    /\ kind[n] = "leaf"
    /\ SetHeap(set_logical_area(Heap, n, r))
    /\ last' = [NoOp EXCEPT !.op = "set_logical_area", !.node = n, !.area = r]
    /\ UNCHANGED <<crashed, resizes, mode, containers, subsystem_vars>>

\* LeafContainer::commit_changes on a leaf of the tree; `ret` tells whether
\* a rectangle was sent to the window controller
CommitLeaf(n) ==
    /\ ~crashed
    /\ kind[n] = "leaf"
    /\ SetHeap(LeafCommitChanges(Heap, n))
    /\ last' = [NoOp EXCEPT !.op = "commit_changes", !.node = n,
                       !.ret = (LeafCommitSends(Heap, n) # <<>>),
                       !.same = (LeafCommitChanges(Heap, n) = Heap)]
    /\ UNCHANGED <<crashed, resizes, mode, containers, subsystem_vars>>

\* two-phase geometry of the leaves: areas are staged and committed
NextStage ==
    \/ \E lane \in Nodes \cup {0} : PlaceWindow(lane)
    \/ \E n \in Nodes : FocusGained(n)
    \/ \E n \in Nodes : ToggleFullscreen(n)
    \/ \E n \in Nodes, r \in StagedAreas : StageArea(n, r)
    \/ \E n \in Nodes : CommitLeaf(n)

SpecStage == Init /\ [][NextStage]_vars

\* ------------------------------------------------------ Policy: outputs
\* The outputs of the policy as one record: output_list holds the outputs
\* in the order they were created, hosted the windows of each Output
\* (Output::add_immediately, create_container and collect_all_windows).
Outputs ==
    [output_list |-> output_list, active_output |-> active_output,
     hosted |-> hosted, orphaned_window_list |-> orphaned_window_list,
     windows |-> windows]

SetOutputs(p) ==
    /\ output_list' = p.output_list
    /\ active_output' = p.active_output
    /\ hosted' = p.hosted
    /\ orphaned_window_list' = p.orphaned_window_list
    /\ windows' = p.windows

Range(seq) == {seq[i] : i \in 1..Len(seq)}

\* the elements of a set of numbers as a sequence, in ascending order
RECURSIVE SeqOf(_)
SeqOf(S) ==
    IF S = {} THEN <<>>
    ELSE LET m == CHOOSE x \in S : \A y \in S : x <= y
         IN <<m>> \o SeqOf(S \ {m})

\* the sequence without its first occurrence of x
RECURSIVE EraseFirst(_, _)
EraseFirst(seq, x) ==
    IF seq = <<>> THEN <<>>
    ELSE IF Head(seq) = x THEN Tail(seq)
    ELSE <<Head(seq)>> \o EraseFirst(Tail(seq), x)

\* advise_output_create as it would be if it left the orphaned windows in
\* their list
advise_output_create_keeps_orphans(p, o) ==
    [p EXCEPT !.output_list = Append(@, o),
              !.hosted[o] = {},
              !.active_output = IF @ = 0 THEN o ELSE @]

advise_output_create(p, o) ==
    LET p1 == [p EXCEPT !.output_list = Append(@, o),
                        !.hosted[o] = {},
                        !.active_output = IF @ = 0 THEN o ELSE @]
    IN IF p1.orphaned_window_list # <<>>
       THEN [p1 EXCEPT !.hosted[p1.active_output] =
                            @ \cup Range(p1.orphaned_window_list),
                       !.orphaned_window_list = <<>>]
       ELSE p1

advise_output_delete(p, o) ==
    IF o \notin Range(p.output_list) THEN p
    ELSE LET rest == EraseFirst(p.output_list, o)
         IN IF rest = <<>>
            THEN [p EXCEPT !.output_list = rest,
                           !.orphaned_window_list = @ \o SeqOf(p.hosted[o]),
                           !.hosted[o] = {},
                           !.active_output = 0]
            ELSE [p EXCEPT !.output_list = rest,
                           !.active_output = rest[1],
                           !.hosted = [q \in OutputIds |->
                                          IF q = o THEN {}
                                          ELSE IF q = rest[1]
                                          THEN p.hosted[q] \cup p.hosted[o]
                                          ELSE p.hosted[q]]]

advise_new_window(p, w) ==
    LET p1 == [p EXCEPT !.windows = @ \cup {w}]
    IN IF p.active_output = 0
       THEN IF p.output_list # <<>>
            THEN [p1 EXCEPT !.hosted[p.output_list[1]] = @ \cup {w}]
            ELSE [p1 EXCEPT !.orphaned_window_list = Append(@, w)]
       ELSE [p1 EXCEPT !.hosted[p.active_output] = @ \cup {w}]

\* Policy::advise_delete_window: an orphaned window leaves the list, any
\* other window leaves the output that hosts it
policy_advise_delete_window(p, w) ==
    [p EXCEPT !.windows = @ \ {w},
              !.orphaned_window_list = EraseFirst(@, w),
              !.hosted = [q \in OutputIds |-> p.hosted[q] \ {w}]]

\* handle_pointer_event: the output under the cursor becomes the active one
pointer_selects_output(p, o) ==
    IF o \in Range(p.output_list) /\ p.active_output # o
    THEN [p EXCEPT !.active_output = o]
    ELSE p

AdviseOutputCreate(o) ==
    /\ ~crashed
    /\ o \notin Range(output_list)
    /\ SetOutputs(advise_output_create(Outputs, o))
    /\ last' = [NoOp EXCEPT !.op = "output_create", !.node = o,
                       !.ret = (orphaned_window_list # <<>>)]
    /\ UNCHANGED <<tree_state_vars, crashed, cursor_output, animator_vars, ipc_vars>>

AdviseOutputDelete(o) ==
    /\ ~crashed
    /\ o \in Range(output_list)
    /\ SetOutputs(advise_output_delete(Outputs, o))
    /\ last' = [NoOp EXCEPT !.op = "output_delete", !.node = o,
                       !.ret = (hosted[o] # {})]
    /\ UNCHANGED <<tree_state_vars, crashed, cursor_output, animator_vars, ipc_vars>>

AdviseNewWindow(w) ==
    /\ ~crashed
    /\ w \notin windows
    /\ SetOutputs(advise_new_window(Outputs, w))
    /\ last' = [NoOp EXCEPT !.op = "new_window", !.node = w]
    /\ UNCHANGED <<tree_state_vars, crashed, cursor_output, animator_vars, ipc_vars>>

PolicyDeleteWindow(w) ==
    /\ ~crashed
    /\ w \in windows
    /\ SetOutputs(policy_advise_delete_window(Outputs, w))
    /\ last' = [NoOp EXCEPT !.op = "delete_window", !.node = w]
    /\ UNCHANGED <<tree_state_vars, crashed, cursor_output, animator_vars, ipc_vars>>

PointerEntersOutput(o) ==
    /\ ~crashed
    /\ o \in Range(output_list) /\ o # active_output
    /\ SetOutputs(pointer_selects_output(Outputs, o))
    /\ last' = [NoOp EXCEPT !.op = "pointer_output", !.node = o]
    /\ UNCHANGED <<tree_state_vars, crashed, cursor_output, animator_vars, ipc_vars>>

\* 0-based index of the first occurrence of x in seq at or after i (-1: none)
RECURSIVE FindFrom(_, _, _)
FindFrom(seq, x, i) ==
    IF i >= Len(seq) THEN 0 - 1
    ELSE IF seq[i + 1] = x THEN i
    ELSE FindFrom(seq, x, i + 1)

\* try_select_next_output: returns the result and the output the cursor is
\* moved to (0 = the cursor is not moved)
try_select_next_output(p) ==
    LET i == FindFrom(p.output_list, p.active_output, 0)
        j == IF i + 1 = Len(p.output_list) THEN 0 ELSE i + 1
    IN IF i < 0 THEN [ret |-> FALSE, cursor |-> 0, undefined |-> FALSE]
       ELSE [ret |-> TRUE, cursor |-> p.output_list[j + 1], undefined |-> FALSE]

\* try_select_prev_output: the loop starts at i = size() - 1 and counts
\* upwards while i >= 0; j = i - 1 is a size_t, so j < 0 never holds.
\* `undefined` tells that output_list was indexed outside its bounds
\* (at size() after a mismatch at the last element, or at i - 1 = -1).
try_select_prev_output(p) ==
    LET n == Len(p.output_list)
        i == n - 1
    IN IF i < 0 THEN [ret |-> FALSE, cursor |-> 0, undefined |-> FALSE]
       ELSE IF p.output_list[i + 1] = p.active_output
       THEN (IF i - 1 < 0
             THEN [ret |-> TRUE, cursor |-> 0, undefined |-> TRUE]
             ELSE [ret |-> TRUE, cursor |-> p.output_list[i], undefined |-> FALSE])
       ELSE [ret |-> FALSE, cursor |-> 0, undefined |-> TRUE]

TrySelectNextOutput ==
    /\ ~crashed
    /\ LET r == try_select_next_output(Outputs)
       IN /\ cursor_output' = IF r.ret THEN r.cursor ELSE cursor_output
          /\ last' = [NoOp EXCEPT !.op = "select_next_output", !.ret = r.ret,
                           !.node = r.cursor]
    /\ UNCHANGED <<tree_state_vars, crashed, output_list, active_output, hosted,
                   orphaned_window_list, windows, animator_vars, ipc_vars>>

\* try_select_prev_output; when output_list is indexed outside its bounds
\* the behaviour is undefined: the process dies, or the call returns false,
\* or it moves the cursor to some output and returns true
TrySelectPrevOutput ==
    /\ ~crashed
    /\ LET r == try_select_prev_output(Outputs)
       IN IF ~r.undefined
          THEN /\ cursor_output' = IF r.ret THEN r.cursor ELSE cursor_output
               /\ crashed' = FALSE
               /\ last' = [NoOp EXCEPT !.op = "select_prev_output", !.ret = r.ret,
                                !.node = r.cursor, !.outcome = "defined"]
          ELSE \/ /\ crashed' = TRUE
                  /\ cursor_output' = cursor_output
                  /\ last' = [NoOp EXCEPT !.op = "select_prev_output",
                                   !.outcome = "undefined"]
               \/ /\ crashed' = FALSE
                  /\ cursor_output' = cursor_output
                  /\ last' = [NoOp EXCEPT !.op = "select_prev_output",
                                   !.outcome = "undefined"]
               \/ \E o \in Range(output_list) :
                     /\ crashed' = FALSE
                     /\ cursor_output' = o
                     /\ last' = [NoOp EXCEPT !.op = "select_prev_output",
                                      !.ret = TRUE, !.node = o,
                                      !.outcome = "undefined"]
    /\ UNCHANGED <<tree_state_vars, output_list, active_output, hosted,
                   orphaned_window_list, windows, animator_vars, ipc_vars>>

\* outputs come and go while windows are created and deleted
NextOutputs ==
    \/ \E o \in OutputIds : AdviseOutputCreate(o)
    \/ TrySelectNextOutput
    \/ TrySelectPrevOutput
    \/ \E o \in OutputIds : AdviseOutputDelete(o)
    \/ \E w \in WindowIds : AdviseNewWindow(w)
    \/ \E w \in WindowIds : PolicyDeleteWindow(w)
    \/ \E o \in OutputIds : PointerEntersOutput(o)

SpecOutputs == Init /\ [][NextOutputs]_vars

\* --------------------------------------------------------------- Animator
\* The animator, its thread and the server action queue its results are
\* handed to.  An animation is its handle, the time steps it has run, the time
\* steps it lasts and its target rectangle (0: the default rectangle of a
\* window_open animation).  A batch on the server action queue is the
\* update_data of one time step.
Animator ==
    [running |-> running, queued_animations |-> queued_animations,
     next_handle |-> next_handle, action_queue |-> action_queue,
     invoked |-> invoked, idle_batches |-> idle_batches]

SetAnimator(a) ==
    /\ running' = a.running
    /\ queued_animations' = a.queued_animations
    /\ next_handle' = a.next_handle
    /\ action_queue' = a.action_queue
    /\ invoked' = a.invoked
    /\ idle_batches' = a.idle_batches

Targets == 1..2

\* Animation::step: the animation after the time step, and its result
AnimationStepped(a) == [a EXCEPT !.runtime = a.runtime + 1]

AnimationStep(a) ==
    LET s == AnimationStepped(a)
    IN  IF s.runtime >= s.duration
        THEN [handle |-> a.handle, is_complete |-> TRUE, rect |-> a.to]
        ELSE [handle |-> a.handle, is_complete |-> FALSE, rect |-> -1]

\* the animation with handle `previous` is erased from the queue
ErasePrevious(q, previous) ==
    SelectSeq(q, LAMBDA a : a.handle # previous)

\* a callback is invoked with a result on a thread
Invocation(r, thread) ==
    [handle |-> r.handle, is_complete |-> r.is_complete, rect |-> r.rect,
     thread |-> thread]

Invocations(batch, thread) ==
    [i \in 1..Len(batch) |-> Invocation(batch[i], thread)]

\* the body of the inner loop of run() that leaves the completed animations
\* in the queue
run_time_step_keeps_completed(A) ==
    LET q == A.queued_animations
        update_data == [i \in 1..Len(q) |-> AnimationStep(q[i])]
        stepped == [i \in 1..Len(q) |-> AnimationStepped(q[i])]
    IN  [A EXCEPT !.queued_animations = stepped,
                  !.action_queue = Append(@, update_data),
                  !.idle_batches = IF q = <<>> THEN @ + 1 ELSE @]

\* the body of the inner loop of run() that invokes the callbacks itself
run_time_step_invokes_callbacks(A) ==
    LET q == A.queued_animations
        update_data == [i \in 1..Len(q) |-> AnimationStep(q[i])]
        stepped == [i \in 1..Len(q) |-> AnimationStepped(q[i])]
    IN  [A EXCEPT !.queued_animations =
                      SelectSeq(stepped, LAMBDA a : a.runtime < a.duration),
                  !.invoked = @ \o Invocations(update_data, "animator"),
                  !.idle_batches = IF q = <<>> THEN @ + 1 ELSE @]

\* the body of the inner loop of run(): every queued animation is stepped,
\* the completed ones are erased, and the results are enqueued as one batch
run_time_step(A) ==
    LET q == A.queued_animations
        update_data == [i \in 1..Len(q) |-> AnimationStep(q[i])]
        stepped == [i \in 1..Len(q) |-> AnimationStepped(q[i])]
    IN  [A EXCEPT !.queued_animations =
                      SelectSeq(stepped, LAMBDA a : a.runtime < a.duration),
                  !.action_queue = Append(@, update_data),
                  !.idle_batches = IF q = <<>> THEN @ + 1 ELSE @]

\* the queued action of a time step, run by the server action queue
execute_batch(A) ==
    LET batch == Head(A.action_queue)
    IN  [A EXCEPT !.action_queue = Tail(@),
                  !.invoked = IF A.running
                              THEN @ \o Invocations(batch, "main")
                              ELSE @]

\* Animator::window_move and Animator::window_open: `to` is the target
\* (0 for window_open), `enabled` is config->are_animations_enabled()
queue_animation(A, previous, to, duration, enabled) ==
    LET q == ErasePrevious(A.queued_animations, previous)
        handle == A.next_handle
    IN  IF ~enabled
        THEN [A EXCEPT !.queued_animations = q,
                       !.next_handle = handle + 1,
                       !.invoked = Append(@, [handle |-> handle,
                                              is_complete |-> TRUE,
                                              rect |-> to,
                                              thread |-> "caller"])]
        ELSE [A EXCEPT !.queued_animations =
                           Append(q, [handle |-> handle, runtime |-> 0,
                                      duration |-> duration, to |-> to]),
                       !.next_handle = handle + 1]

window_move(A, previous, to, duration, enabled) ==
    queue_animation(A, previous, to, duration, enabled)

window_open(A, previous, duration, enabled) ==
    queue_animation(A, previous, 0, duration, enabled)

\* the main thread is not blocked in stop()
MainThreadFree == stop_pc # "joining"

\* cv.notify_one(): the animator thread leaves cv.wait if it is in it
Notified == IF anim_pc = "wait" THEN "lag" ELSE anim_pc

WindowMove(previous, to, duration, enabled) ==
    /\ MainThreadFree
    /\ next_handle <= MaxAnimations
    /\ SetAnimator(window_move(Animator, previous, to, duration, enabled))
    /\ anim_pc' = IF enabled THEN Notified ELSE anim_pc
    /\ UNCHANGED <<tree_state_vars, crashed, last, policy_vars, stop_pc, ipc_vars>>

WindowOpen(previous, duration, enabled) ==
    /\ MainThreadFree
    /\ next_handle <= MaxAnimations
    /\ SetAnimator(window_open(Animator, previous, duration, enabled))
    /\ anim_pc' = IF enabled THEN Notified ELSE anim_pc
    /\ UNCHANGED <<tree_state_vars, crashed, last, policy_vars, stop_pc, ipc_vars>>

\* run() begins on the animator thread
AnimatorStart ==
    /\ anim_pc = "start"
    /\ running' = TRUE
    /\ anim_pc' = "check"
    /\ UNCHANGED <<tree_state_vars, crashed, last, policy_vars, queued_animations,
                   next_handle, action_queue, invoked, stop_pc, idle_batches,
                   ipc_vars>>

\* the head of the outer loop: while (running), then the wait on an empty
\* queue
AnimatorCheck ==
    /\ anim_pc = "check"
    /\ anim_pc' = IF ~running THEN "done"
                  ELSE IF queued_animations = <<>> THEN "wait"
                  ELSE "lag"
    /\ UNCHANGED <<tree_state_vars, crashed, last, policy_vars, running,
                   queued_animations, next_handle, action_queue, invoked,
                   stop_pc, idle_batches, ipc_vars>>

\* cv.wait returns without a notification
SpuriousWakeup ==
    /\ anim_pc = "wait"
    /\ idle_batches < MaxIdleBatches
    /\ anim_pc' = "lag"
    /\ UNCHANGED <<tree_state_vars, crashed, last, policy_vars, running,
                   queued_animations, next_handle, action_queue, invoked,
                   stop_pc, idle_batches, ipc_vars>>

\* one round of the inner loop: lag >= timestep
TimeStep ==
    /\ anim_pc = "lag"
    /\ queued_animations = <<>> => idle_batches < MaxIdleBatches
    /\ SetAnimator(run_time_step(Animator))
    /\ UNCHANGED <<tree_state_vars, crashed, last, policy_vars, anim_pc, stop_pc,
                   ipc_vars>>

\* the inner loop ends: lag < timestep
LagSpent ==
    /\ anim_pc = "lag"
    /\ anim_pc' = "check"
    /\ UNCHANGED <<tree_state_vars, crashed, last, policy_vars, running,
                   queued_animations, next_handle, action_queue, invoked,
                   stop_pc, idle_batches, ipc_vars>>

\* the server action queue runs its oldest action on the main thread
ExecuteBatch ==
    /\ MainThreadFree
    /\ action_queue # <<>>
    /\ SetAnimator(execute_batch(Animator))
    /\ UNCHANGED <<tree_state_vars, crashed, last, policy_vars, anim_pc, stop_pc,
                   ipc_vars>>

\* Animator::stop up to the join
StopCall ==
    /\ MainThreadFree
    /\ stop_pc' = IF running THEN "joining" ELSE "returned"
    /\ running' = FALSE
    /\ UNCHANGED <<tree_state_vars, crashed, last, policy_vars, queued_animations,
                   next_handle, anim_pc, action_queue, invoked, idle_batches,
                   ipc_vars>>

\* run_thread.join() returns once run() has returned
StopJoined ==
    /\ stop_pc = "joining"
    /\ anim_pc = "done"
    /\ stop_pc' = "returned"
    /\ UNCHANGED <<tree_state_vars, crashed, last, policy_vars, running,
                   queued_animations, next_handle, anim_pc, action_queue,
                   invoked, idle_batches, ipc_vars>>

AnimatorThread ==
    AnimatorStart \/ AnimatorCheck \/ LagSpent

\* a time step with animations to step
BusyTimeStep == TimeStep /\ queued_animations # <<>>

NextAnimator ==
    \/ \E previous \in 0..MaxAnimations, to \in Targets,
          duration \in 1..MaxDuration, enabled \in BOOLEAN :
          WindowMove(previous, to, duration, enabled)
    \/ \E previous \in 0..MaxAnimations, duration \in 1..MaxDuration,
          enabled \in BOOLEAN :
          WindowOpen(previous, duration, enabled)
    \/ AnimatorStart
    \/ AnimatorCheck
    \/ SpuriousWakeup
    \/ TimeStep
    \/ LagSpent
    \/ ExecuteBatch
    \/ StopCall
    \/ StopJoined

SpecAnimator == Init /\ [][NextAnimator]_vars

\* The animator thread and the main thread keep running, and time passes:
\* while animations are queued the lag reaches a time step again and again.
\* Nothing makes cv.wait return without a notification.
SpecAnimatorFair ==
    /\ Init
    /\ [][NextAnimator]_vars
    /\ WF_vars(AnimatorThread)
    /\ SF_vars(BusyTimeStep)
    /\ WF_vars(StopJoined)

\* -------------------------------------------------------------------- Ipc
\* The IPC command path: a command is the pair of the batch it arrived in and
\* its position in the batch.  The socket handlers and the queued actions
\* both run on the main loop, one at a time.
Ipc ==
    [pending_commands |-> pending_commands, ipc_queue |-> ipc_queue,
     executed |-> executed]

SetIpc(I) ==
    /\ pending_commands' = I.pending_commands
    /\ ipc_queue' = I.ipc_queue
    /\ executed' = I.executed

\* I3ScopedCommandList::parse of the n commands of batch b
Batch(b, n) == [k \in 1..n |-> <<b, k>>]

\* Ipc::parse_i3_command: the parsed list replaces pending_commands and an
\* action is queued; the call returns true
parse_i3_command(I, commands) ==
    [I EXCEPT !.pending_commands = commands,
              !.ipc_queue = @ + 1]

\* the queued action: every pending command is processed, then the processed
\* commands are erased
process_pending_commands(I) ==
    LET num_processed == Len(I.pending_commands)
    IN  [I EXCEPT !.executed = @ \o I.pending_commands,
                  !.pending_commands =
                      SubSeq(@, num_processed + 1, Len(@)),
                  !.ipc_queue = @ - 1]

\* handle_command with an IPC_COMMAND payload: success is replied
HandleCommand(n) ==
    /\ Len(accepted) < MaxIpcBatches
    /\ LET commands == Batch(Len(accepted) + 1, n)
       IN  /\ SetIpc(parse_i3_command(Ipc, commands))
           /\ accepted' = Append(accepted, commands)
    /\ UNCHANGED <<tree_state_vars, crashed, last, policy_vars, animator_vars>>

\* the server action queue runs the oldest queued action
RunQueuedCommands ==
    /\ ipc_queue > 0
    /\ SetIpc(process_pending_commands(Ipc))
    /\ UNCHANGED <<tree_state_vars, crashed, last, policy_vars, animator_vars,
                   accepted>>

NextIpc ==
    \/ \E n \in 1..MaxCommands : HandleCommand(n)
    \/ RunQueuedCommands

SpecIpc == Init /\ [][NextIpc]_vars

\* ----------------------------------------------- ContainerGroupContainer
\* The group of the multi-select: `containers` lists its members (weak
\* references to containers of the tree).  An operation returns the tree,
\* the members and its result.
group_contains(c, n) == IndexOf(c, n) # 0

group_add(h, c, n) ==
    [h |-> h, containers |-> IF group_contains(c, n) THEN c ELSE Append(c, n),
     ret |-> TRUE]

group_remove(h, c, n) ==
    [h |-> h, containers |-> Erase(c, n), ret |-> TRUE]

Refused(h, c) == [h |-> h, containers |-> c, ret |-> FALSE]

group_resize(h, c, d, pixels) == Refused(h, c)
group_set_size(h, c, width, height) == Refused(h, c)

\* toggle_fullscreen of the group as it would be if it were forwarded to the
\* members
group_toggle_fullscreen_forwarding(h, c) ==
    IF c = <<>> THEN Refused(h, c)
    ELSE [h |-> LeafToggleFullscreen([h EXCEPT !.active = c[1]], c[1]),
          containers |-> c, ret |-> TRUE]

group_toggle_fullscreen(h, c) == Refused(h, c)
\* the layout requests return nothing; ret stands for that
group_request_horizontal_layout(h, c) == Refused(h, c)
group_request_vertical_layout(h, c) == Refused(h, c)
group_toggle_layout(h, c, cycle) == Refused(h, c)
group_toggle_tabbing(h, c) == Refused(h, c)
group_toggle_stacking(h, c) == Refused(h, c)
group_drag_start(h, c) == Refused(h, c)
group_drag(h, c, x, y) == Refused(h, c)
group_drag_stop(h, c) == Refused(h, c)
group_set_layout(h, c, scheme) == Refused(h, c)

\* an operation of the group is called; r is what it returns
GroupCall(name, r) ==
    /\ ~crashed
    /\ SetHeap(r.h)
    /\ containers' = r.containers
    /\ last' = [NoOp EXCEPT !.op = name, !.ret = r.ret,
                       !.same = (r.h = Heap /\ r.containers = containers)]
    /\ UNCHANGED <<crashed, resizes, mode, subsystem_vars>>

GroupAdd(n) ==
    /\ kind[n] = "leaf"
    /\ GroupCall("group_add", group_add(Heap, containers, n))
GroupRemove(n) ==
    /\ group_contains(containers, n)
    /\ GroupCall("group_remove", group_remove(Heap, containers, n))
GroupResize(d, pixels) ==
    /\ ~crashed
    /\ GroupCall("group_resize", group_resize(Heap, containers, d, pixels))
GroupSetSize(width, height) ==
    /\ ~crashed
    /\ GroupCall("group_set_size", group_set_size(Heap, containers, width, height))
GroupToggleFullscreen ==
    /\ ~crashed
    /\ GroupCall("group_toggle_fullscreen", group_toggle_fullscreen(Heap, containers))
GroupRequestHorizontalLayout ==
    /\ ~crashed
    /\ GroupCall("group_request_horizontal_layout",
              group_request_horizontal_layout(Heap, containers))
GroupRequestVerticalLayout ==
    /\ ~crashed
    /\ GroupCall("group_request_vertical_layout",
              group_request_vertical_layout(Heap, containers))
GroupToggleLayout(cycle) ==
    /\ ~crashed
    /\ GroupCall("group_toggle_layout", group_toggle_layout(Heap, containers, cycle))
GroupToggleTabbing ==
    /\ ~crashed
    /\ GroupCall("group_toggle_tabbing", group_toggle_tabbing(Heap, containers))
GroupToggleStacking ==
    /\ ~crashed
    /\ GroupCall("group_toggle_stacking", group_toggle_stacking(Heap, containers))
GroupDragStart ==
    /\ ~crashed
    /\ GroupCall("group_drag_start", group_drag_start(Heap, containers))
GroupDrag(x, y) ==
    /\ ~crashed
    /\ GroupCall("group_drag", group_drag(Heap, containers, x, y))
GroupDragStop ==
    /\ ~crashed
    /\ GroupCall("group_drag_stop", group_drag_stop(Heap, containers))
GroupSetLayout(scheme) ==
    /\ ~crashed
    /\ GroupCall("group_set_layout", group_set_layout(Heap, containers, scheme))

\* the operations a group refuses, and those of them that return a boolean
GroupRefusedOps ==
    {"group_resize", "group_set_size", "group_toggle_fullscreen",
     "group_request_horizontal_layout", "group_request_vertical_layout",
     "group_toggle_layout", "group_toggle_tabbing", "group_toggle_stacking",
     "group_drag_start", "group_drag", "group_drag_stop", "group_set_layout"}

\* windows are placed and focused, the group gains and loses members, and
\* every operation of the group is called
NextGroup ==
    \/ \E lane \in Nodes \cup {0} : PlaceWindow(lane)
    \/ \E n \in Nodes : FocusGained(n)
    \/ \E n \in Nodes : GroupAdd(n)
    \/ \E n \in Nodes : GroupRemove(n)
    \/ \E d \in Directions, a \in ResizeJumps : GroupResize(d, a)
    \/ \E w \in {100}, ht \in {100} : GroupSetSize(w, ht)
    \/ GroupToggleFullscreen
    \/ GroupRequestHorizontalLayout
    \/ GroupRequestVerticalLayout
    \/ \E cycle \in BOOLEAN : GroupToggleLayout(cycle)
    \/ GroupToggleTabbing
    \/ GroupToggleStacking
    \/ GroupDragStart
    \/ \E x \in {0, 10}, y \in {0, 10} : GroupDrag(x, y)
    \/ GroupDragStop
    \/ \E scheme \in LayoutSchemes : GroupSetLayout(scheme)

SpecGroup == Init /\ [][NextGroup]_vars

\* ------------------------------------------------- window-manager mode
\* Policy::try_toggle_resize_mode
TryToggleResizeMode ==
    /\ ~crashed
    /\ mode' = IF active = 0 THEN "normal"
               ELSE IF kind[active] # "leaf" THEN "normal"
               ELSE IF mode = "resizing" THEN "normal"
               ELSE "resizing"
    /\ SetHeap(Heap)
    /\ last' = [NoOp EXCEPT !.op = "toggle_resize_mode", !.ret = TRUE]
    /\ UNCHANGED <<crashed, resizes, containers, subsystem_vars>>

\* Policy::try_select: refused while resizing and without an active container
TrySelect(d) ==
    \/ /\ mode # "resizing"
       /\ active # 0
       /\ SelectNext(active, d)
    \/ /\ ~crashed
       /\ mode = "resizing" \/ active = 0
       /\ SetHeap(Heap)
       /\ last' = [NoOp EXCEPT !.op = "select", !.ret = FALSE, !.dir = d,
                          !.same = TRUE]
       /\ UNCHANGED <<crashed, resizes, mode, containers, subsystem_vars>>

\* Policy::try_resize: only while resizing
TryResize(d, amount) ==
    \/ /\ mode = "resizing"
       /\ active # 0
       /\ ResizeContainer(active, d, amount)
    \/ /\ ~crashed
       /\ mode # "resizing" \/ active = 0
       /\ SetHeap(Heap)
       /\ last' = [NoOp EXCEPT !.op = "resize", !.ret = FALSE, !.dir = d,
                          !.amount = amount, !.same = TRUE]
       /\ UNCHANGED <<crashed, resizes, mode, containers, subsystem_vars>>

\* Policy::handle_pointer_event with the pointer over the leaf n (no
\* modifier is held): in normal mode the window below the pointer is
\* selected, while resizing the event is ignored
PointerEvent(n) ==
    /\ ~crashed
    /\ kind[n] = "leaf"
    /\ mode \in {"normal", "resizing"}
    /\ SetHeap(IF mode = "normal" /\ active # n
               THEN [Heap EXCEPT !.active = n] ELSE Heap)
    /\ last' = [NoOp EXCEPT !.op = "pointer", !.ret = FALSE, !.node = n]
    /\ UNCHANGED <<crashed, resizes, mode, containers, subsystem_vars>>

NextMode ==
    \/ \E lane \in Nodes \cup {0} : PlaceWindow(lane)
    \/ \E n \in Nodes : DeleteWindow(n)
    \/ \E n \in Nodes : FocusGained(n)
    \/ \E n \in Nodes : PointerEvent(n)
    \/ TryToggleResizeMode
    \/ \E d \in Directions : TrySelect(d)
    \/ \E d \in Directions : TryResize(d, 100)

SpecMode == Init /\ [][NextMode]_vars

TypeOK ==
    /\ root_lane \in Nodes /\ kind[root_lane] = "lane"
    /\ \A n \in Nodes : kind[n] = "none" => sub_nodes[n] = <<>>

\* ================================================================ claims

RECURSIVE ReachesRoot(_, _)
ReachesRoot(n, fuel) ==
    IF n = root_lane THEN TRUE
    ELSE IF fuel = 0 \/ parent[n] = 0 THEN FALSE
    ELSE ReachesRoot(parent[n], fuel - 1)

C2_ParentChainReachesRoot ==
    /\ parent[root_lane] = 0
    /\ \A n \in Leaves : ReachesRoot(n, MaxLeafIds + MaxLanes)
    /\ \A l \in Lanes : \A i \in 1..Len(sub_nodes[l]) :
           parent[sub_nodes[l][i]] = l

\* a leaf two lanes below a root that a move has just put in place
C2_Witness ==
    /\ last.op = "move" /\ last.ret
    /\ last.outcome \in {"append", "prepend", "insert"}
    /\ \E n \in Leaves : parent[n] # root_lane /\ parent[n] # 0

\* C3: at most one LeafContainer of the tree is fullscreen at any time.
C3_AtMostOneFullscreen ==
    Cardinality({n \in Leaves : is_fullscreen(Heap, n)}) <= 1

\* the tree: structure and geometry
tree_vars == <<kind, parent, sub_nodes, direction, logical_area,
               next_logical_area, root_lane>>

\* the extent a resize computes for child c of the lane it reaches, before
\* the remainder is folded into the last child
CandidateExtent(h, lane, target, c, d, amount) ==
    Extent(get_logical_area(h, c), from_direction(d))
    + (IF c = target THEN resize_amount_of(d, amount)
       ELSE (0 - resize_amount_of(d, amount)) \div (num_nodes(h, lane) - 1))

MinExtent(h, c, d) ==
    IF is_vertical_direction(d) THEN get_min_height(h, c) ELSE get_min_width(h, c)

RECURSIVE SumExtents(_, _, _, _)
SumExtents(areas, nodes, scheme, i) ==
    IF i > Len(nodes) THEN 0
    ELSE Extent(areas[nodes[i]], scheme) + SumExtents(areas, nodes, scheme, i + 1)

ChildrenOf(lane) == {sub_nodes[lane][i] : i \in 1..Len(sub_nodes[lane])}

\* C4: after a handle_resize that changes geometry the siblings' extents
\* along the resized axis add up to the lane's extent, and every sibling's
\* extent is strictly greater than its minimum.
C4_ResizeKeepsSumAndMinimum ==
    [][\A n \in Nodes, d \in Directions, a \in ResizeJumps :
         LET r == resize_container(Heap, d, n, a)
             s == from_direction(d)
         IN (ResizeContainer(n, d, a) /\ r.outcome = "changed") =>
              /\ SumExtents(logical_area', sub_nodes'[r.lane], s, 1)
                     = Extent(logical_area'[r.lane], s)
              /\ \A c \in ChildrenOf(r.lane) :
                     Extent(logical_area'[c], s) > MinExtent(Heap, c, d)
      ]_vars

\* C5: handle_resize is all-or-nothing: when the computed extent of some
\* sibling is at or below that sibling's minimum, nothing is staged or
\* committed and the tree is left as it was.
C5_ResizeAllOrNothing ==
    [][\A n \in Nodes, d \in Directions, a \in ResizeJumps :
         LET r == resize_container(Heap, d, n, a)
         IN (/\ ResizeContainer(n, d, a)
             /\ r.outcome \in {"changed", "aborted"}
             /\ \E c \in ChildrenOf(r.lane) :
                    CandidateExtent(Heap, r.lane, r.target, c, d, a)
                        <= MinExtent(Heap, c, d))
            => UNCHANGED tree_vars
      ]_vars

\* a horizontal lane that holds exactly the two leaves A and B
TwoLeafHorizontalLane(A, B) ==
    /\ A # B /\ kind[A] = "leaf" /\ kind[B] = "leaf"
    /\ parent[A] # 0 /\ parent[A] = parent[B]
    /\ direction[parent[A]] = "horizontal"
    /\ ChildrenOf(parent[A]) = {A, B}

AxisMatches(scheme, d) ==
    \/ is_vertical_direction(d) /\ scheme = "vertical"
    \/ ~is_vertical_direction(d) /\ scheme \in {"horizontal", "tabbing"}

SelectsSibling(L, d) ==
    LET M == handle_select(Heap, L, d)
    IN /\ M > 0
       /\ parent[M] = parent[L]
       /\ AxisMatches(direction[parent[L]], d)

\* C7: if handle_select(L, d) returns a leaf M that is a sibling of L under
\* a lane whose axis matches d, then handle_select(M, opposite(d)) returns L.
C7_SelectRoundTrip ==
    \A L \in Leaves, d \in Directions :
        SelectsSibling(L, d) =>
            handle_select(Heap, handle_select(Heap, L, d), opposite(d)) = L

C7_Witness ==
    \E L \in Leaves, d \in Directions :
        SelectsSibling(L, d) /\ Len(sub_nodes[parent[L]]) >= 2

\* C8: move_container in the insert case (swap, or transfer next to the
\* target) leaves the set of leaves of the tree as it was.
C8_InsertKeepsLeaves ==
    [][\A n \in Nodes, d \in Directions :
         (/\ MoveContainer(n, d)
          /\ ~is_active_window_fullscreen
          /\ handle_move(Heap, n, d).traversal_type = "insert")
         => LeavesOf(Heap)' = LeavesOf(Heap)
      ]_vars

\* a move has just transferred the node into the lane of its target
C8_Witness ==
    /\ last.op = "move" /\ last.outcome = "insert" /\ last.ret
    /\ \E l \in Lanes : l # root_lane /\ active \in ChildrenOf(l)
                        /\ Len(sub_nodes[l]) = 2

\* C9: toggle_fullscreen applied twice in a row to the same leaf leaves the
\* leaf with the logical area it had before the first toggle.
C9_ToggleTwiceKeepsArea ==
    (last.op = "toggle_fullscreen" /\ last.outcome = "twice") =>
        /\ logical_area[last.node] = last.area
        /\ get_logical_area(Heap, last.node) = last.area

C9_Witness ==
    /\ last.op = "toggle_fullscreen" /\ last.outcome = "twice"
    /\ win_state[last.node] = "restored"
    /\ last.area.w > 0

\* C10: placing and confirming the first window in a tree whose root lane
\* is empty yields a root with exactly one child, a leaf, whose logical area
\* is the root's logical area, the whole work area of the output.
C10_FirstWindowFillsRoot ==
    [][\A lane \in Nodes \cup {0} :
         (PlaceWindow(lane) /\ sub_nodes[root_lane] = <<>>)
         => /\ Len(sub_nodes'[root_lane']) = 1
            /\ kind'[sub_nodes'[root_lane'][1]] = "leaf"
            /\ logical_area'[sub_nodes'[root_lane'][1]] = logical_area'[root_lane']
            /\ logical_area'[root_lane'] = ZoneExtents
            /\ next_logical_area'[sub_nodes'[root_lane'][1]] = <<>>
      ]_vars

C10_Witness ==
    /\ last.op = "place"
    /\ Len(sub_nodes[root_lane]) = 1
    /\ Cardinality(Leaves) = 1 /\ Cardinality(Lanes) = 1
    /\ logical_area[sub_nodes[root_lane][1]] = ZoneExtents

\* C11: move_container(right) on a leaf that is the only child of the root
\* ends with the root being a horizontal lane whose only child is that
\* leaf, and the leaf's visible area is what it was before the move.
C11_MoveRightSoleChild ==
    [][\A n \in Nodes :
         (/\ MoveContainer(n, "right")
          /\ kind[n] = "leaf"
          /\ sub_nodes[root_lane] = <<n>>)
         => /\ kind'[root_lane'] = "lane"
            /\ direction'[root_lane'] = "horizontal"
            /\ sub_nodes'[root_lane'] = <<n>>
            /\ parent'[n] = root_lane'
            /\ get_visible_area(Heap, n)' = get_visible_area(Heap, n)
      ]_vars

\* the sole child of a vertical root has just been moved right: the root
\* was replaced
C11_Witness ==
    /\ last.op = "move" /\ last.dir = "right" /\ last.ret /\ last.wrap
    /\ last.outcome = "append"
    /\ active # 0 /\ sub_nodes[root_lane] = <<active>>
    /\ direction[root_lane] = "horizontal"

\* C12: while the tree-wide fullscreen flag is set, resize_container,
\* select_next and move_container return false and layout-scheme requests
\* have no effect; the structure, every scheme, every logical area and the
\* active window are unchanged.
C12_FullscreenRefuses ==
    (last.fs /\ last.op \in {"resize", "select", "move", "layout", "toggle_layout"})
    => /\ last.same
       /\ is_active_window_fullscreen
       /\ last.op \in {"resize", "select", "move"} => ~last.ret

\* an operation has just been refused in a tree of two leaves, one of them
\* fullscreen, in which it would otherwise have acted
C12_Witness ==
    /\ is_active_window_fullscreen
    /\ last.op \in {"select", "move", "resize"} /\ ~last.ret
    /\ last.dir \in {"left", "right"}
    /\ Len(sub_nodes[root_lane]) = 2 /\ direction[root_lane] = "horizontal"
    /\ \E n \in Leaves : is_fullscreen(Heap, n)

\* hide() on a hidden tree and show() on a tree that is not hidden leave the
\* program state as it was, and that show() returns no leaf
HideShowNoop ==
    /\ (last.op = "hide" /\ last.outcome = "was_hidden")
           => (last.same /\ is_hidden)
    /\ (last.op = "show" /\ last.outcome = "was_shown")
           => (last.same /\ ~is_hidden /\ ~last.ret /\ last.node = 0)

\* C13: the hidden flag changes only through hide() (not hidden to hidden)
\* and show() (hidden to not hidden); hide() on a hidden tree and show() on
\* a tree that is not hidden change no leaf state and no flag, and show()
\* then returns no leaf.
C13_HiddenFlagTransitions ==
    [][/\ is_hidden' # is_hidden =>
              \/ (last'.op = "hide" /\ last'.outcome = "was_shown"
                   /\ ~is_hidden /\ is_hidden')
              \/ (last'.op = "show" /\ last'.outcome # "was_shown"
                   /\ is_hidden /\ ~is_hidden')
       /\ HideShowNoop'
      ]_vars

\* show() was just called on a tree that is not hidden and has a fullscreen
\* leaf
C13_Witness ==
    /\ last.op = "show" /\ last.outcome = "was_shown"
    /\ ~is_hidden
    /\ \E n \in Leaves : is_fullscreen(Heap, n)

\* C14: hide() followed by show() leaves every leaf's window in the window
\* state it had immediately before hide(), and show() clears the remembered
\* pre-hide state.
C14_HideShowRoundTrip ==
    (last.op = "show" /\ last.outcome = "after_hide") =>
        \A n \in DOMAIN last.snap :
            /\ win_state[n] = last.snap[n]
            /\ before_shown_state[n] = "none"
            /\ next_state[n] = "none"

\* a tree with a fullscreen leaf and a restored leaf was hidden and shown
C14_Witness ==
    /\ last.op = "show" /\ last.outcome = "after_hide"
    /\ \E n \in DOMAIN last.snap : last.snap[n] = "fullscreen"
    /\ \E n \in DOMAIN last.snap : last.snap[n] = "restored"

\* C15: every tree operation applied to a container that has no parent
\* (advise_delete_window, constrain, handle_resize, handle_select,
\* handle_layout_scheme) is a recoverable no-op: the tree is unchanged and
\* no null parent is used, so the process goes on.
C15_ParentlessIsNoOp ==
    /\ last.op \in {"parentless_resize", "parentless_select", "parentless_layout",
                    "parentless_constrain", "parentless_delete"} => last.same
    /\ ~crashed

\* C16: a resize that fails (a sibling would fall to the minimum or below,
\* or no ancestor on the axis has more than one child) is reported by
\* resize_container returning false; it returns true only when the geometry
\* of the tree has actually changed.
C16_ResizeReportsFailure ==
    (last.op = "resize" /\ last.ret)
    => /\ last.outcome = "changed"
       /\ ~last.same

\* some container lies on the given side of container: at some ancestor lane
\* laid out on the axis of the side, the node the climb came through is not
\* the first child (left, up) or not the last child (right, down)
RECURSIVE LiesOnSide(_, _, _)
LiesOnSide(h, container, side) ==
    LET par == h.parent[container]
        index == IndexOf(h.sub_nodes[par], container)
        scheme == IF side \in {"left", "right"} THEN "horizontal" ELSE "vertical"
        extremity == IF side \in {"left", "up"} THEN 1 ELSE num_nodes(h, par)
    IN IF par = 0 THEN FALSE
       ELSE \/ (h.direction[par] = scheme /\ index # extremity)
            \/ LiesOnSide(h, par, side)

\* C17: get_visible_area insets an edge by the half gap only if some
\* container lies on that side: a leaf that is at the extremity at every
\* ancestor level of the axis gets no gap on that edge (only the border),
\* also inside a nested lane of the other axis.
C17_GapOnlyTowardsNeighbour ==
    \A n \in LeavesOf(Heap) :
        LET a == logical_area[n]
            v == get_visible_area(Heap, n)
        IN /\ ~LiesOnSide(Heap, n, "left") => v.x = a.x + BorderSize
           /\ ~LiesOnSide(Heap, n, "right") => v.x + v.w = a.x + a.w - BorderSize
           /\ ~LiesOnSide(Heap, n, "up") => v.y = a.y + BorderSize
           /\ ~LiesOnSide(Heap, n, "down") => v.y + v.h = a.y + a.h - BorderSize

\* the child next to the climbing node, on the side of the direction, in the
\* nearest ancestor lane that is laid out on the axis of the direction and
\* holds the climbing node away from the extremity; 0 when there is none
RECURSIVE AdjacentChild(_, _, _)
AdjacentChild(h, current_node, d) ==
    LET par == h.parent[current_node]
        index == IndexOf(h.sub_nodes[par], current_node)
        matches == IF is_vertical_direction(d)
                   THEN h.direction[par] = "vertical"
                   ELSE h.direction[par] \in {"horizontal", "tabbing"}
    IN IF par = 0 THEN 0
       ELSE IF matches /\ is_negative_direction(d) /\ index > 1
       THEN h.sub_nodes[par][index - 1]
       ELSE IF matches /\ ~is_negative_direction(d) /\ index < num_nodes(h, par)
       THEN h.sub_nodes[par][index + 1]
       ELSE AdjacentChild(h, par, d)

Others(h, lane, node) == Erase(h.sub_nodes[lane], node)

\* the children that lane has in h and still has in g, in their order in h
Kept(h, g, lane) ==
    SelectSeq(h.sub_nodes[lane],
              LAMBDA v : \E i \in 1..Len(g.sub_nodes[lane]) : g.sub_nodes[lane][i] = v)

\* what move_container makes of the tree h when the directional select from
\* N finds the target T
MovedOntoTarget(h, g, N, T) ==
    LET P == h.parent[N]
        Q == h.parent[T]
    IN IF P = Q
       THEN /\ g.parent[N] = P /\ g.parent[T] = P
            /\ Len(g.sub_nodes[P]) = Len(h.sub_nodes[P])
            /\ IndexOf(g.sub_nodes[P], N) = IndexOf(h.sub_nodes[P], T)
            /\ IndexOf(g.sub_nodes[P], T) = IndexOf(h.sub_nodes[P], N)
            /\ \A i \in 1..Len(h.sub_nodes[P]) :
                  h.sub_nodes[P][i] \notin {N, T} => g.sub_nodes[P][i] = h.sub_nodes[P][i]
       ELSE /\ P \in InTree(g) => g.sub_nodes[P] = Others(h, P, N)
            /\ g.parent[N] = Q
            /\ g.parent[T] = Q
            /\ IndexOf(g.sub_nodes[Q], N) = IndexOf(g.sub_nodes[Q], T) + 1
            /\ Others(g, Q, N) = Kept(h, g, Q)

\* C19: when move_container finds a select target T for the node N: if both
\* have the same parent, N and T exchange their indices and every other
\* child keeps its index; otherwise N is removed from its former parent and
\* sits in the parent of T at index(T) + 1, the other children keeping
\* their relative order.
C19_MoveOntoTarget ==
    \A d \in Directions :
        (/\ ~crashed /\ ~is_active_window_fullscreen
         /\ active # 0 /\ active \in LeavesOf(Heap)
         /\ handle_select(Heap, active, d) > 0)
        => /\ handle_move(Heap, active, d).traversal_type = "insert"
           /\ move_container(Heap, d, active).ret
           /\ MovedOntoTarget(Heap, move_container(Heap, d, active).h, active,
                              handle_select(Heap, active, d))

\* a leaf has just been transferred into the vertical lane of its target by a
\* move to the left or right, and can be moved onto a target again
C19_Witness ==
    /\ last.op = "move" /\ last.outcome = "insert" /\ last.ret
    /\ last.dir \in {"left", "right"}
    /\ active # 0 /\ parent[active] # 0
    /\ direction[parent[active]] = "vertical"
    /\ \E d \in Directions : handle_select(Heap, active, d) > 0

\* C20: when handle_move finds no select target, the parent of the node is
\* the root and the scheme of the root is not the axis of the direction, the
\* root is replaced by a new lane that has the axis of the direction and the
\* logical area of the old root, and whose only child at that moment is the
\* old root; the moving node is then grafted into the new root at index 0
\* for left and up, at the end for right and down.
C20_MoveWrapsRoot ==
    \A d \in Directions :
        (/\ ~crashed /\ ~is_active_window_fullscreen
         /\ active # 0 /\ active \in LeavesOf(Heap)
         /\ MoveNeedsNewRoot(Heap, active, d)
         /\ NewLaneId(Heap) # 0)
        => LET t == handle_move(Heap, active, d)
               g == move_container(Heap, d, active).h
               new == t.h.root_lane
           IN /\ new # root_lane
              /\ t.node = new
              /\ t.h.kind[new] = "lane"
              /\ t.h.parent[new] = 0
              /\ t.h.direction[new] = from_direction(d)
              /\ t.h.logical_area[new] = logical_area[root_lane]
              /\ t.h.sub_nodes[new] = <<root_lane>>
              /\ t.h.parent[root_lane] = new
              /\ g.root_lane = new
              /\ g.parent[active] = new
              /\ IndexOf(g.sub_nodes[new], active)
                    = IF d \in {"left", "up"} THEN 1 ELSE Len(g.sub_nodes[new])

\* a move up or to the left has just wrapped the root; the moved leaf is the
\* first child of the new root and the old root, still holding the other
\* leaf, is the second
C20_Witness ==
    /\ last.op = "move" /\ last.wrap /\ last.ret /\ last.outcome = "prepend"
    /\ active # 0 /\ parent[active] = root_lane
    /\ Len(sub_nodes[root_lane]) = 2
    /\ sub_nodes[root_lane][1] = active
    /\ kind[sub_nodes[root_lane][2]] = "lane"
    /\ direction[root_lane] = from_direction(last.dir)

\* the node hangs in the tree: its parent lists it and reaches the root
Attached(h, node) ==
    /\ h.parent[node] # 0
    /\ IndexOf(h.sub_nodes[h.parent[node]], node) # 0
    /\ node \in InTree(h)

\* C21: in every move_container that detaches the moving node (transfer,
\* append, prepend) the node is grafted into its destination lane before
\* commit_changes is called on any lane: no commit is issued while the node
\* is detached from the tree.
C21_GraftBeforeCommit ==
    \A d \in Directions :
        (/\ ~crashed /\ ~is_active_window_fullscreen
         /\ active # 0 /\ active \in LeavesOf(Heap)
         /\ handle_select(Heap, active, d) >= 0
         /\ MoveNeedsNewRoot(Heap, active, d) => NewLaneId(Heap) # 0)
        => LET steps == move_container_steps(Heap, d, active)
           IN /\ steps[Len(steps)].h = move_container(Heap, d, active).h
              /\ \A i \in 2..Len(steps) :
                    steps[i].call = "commit_changes"
                    => Attached(steps[i - 1].h, active)
              /\ \A i \in 1..Len(steps) :
                    steps[i].call = "handle_remove"
                    => /\ ~Attached(steps[i].h, active)
                       /\ i < Len(steps)
                       /\ steps[i + 1].call = "graft_existing"

\* a leaf below an inner lane has just been moved to the front of the root
\* without a new root, and the leaf left behind can still be moved
C21_Witness ==
    /\ last.op = "move" /\ last.ret /\ last.outcome = "prepend" /\ ~last.wrap
    /\ active # 0 /\ parent[active] = root_lane
    /\ sub_nodes[root_lane][1] = active
    /\ Len(sub_nodes[root_lane]) >= 2

\* C22: on a ContainerGroupContainer resize, set_size, toggle_fullscreen,
\* set_layout, toggle_tabbing, toggle_stacking, drag_start and drag_stop
\* return false, and they as well as the layout requests and drag change
\* neither the members of the group nor any member container.
C22_GroupRefuses ==
    last.op \in GroupRefusedOps
    => /\ last.same
       /\ last.op \in {"group_resize", "group_set_size", "group_toggle_fullscreen",
                        "group_set_layout", "group_toggle_tabbing",
                        "group_toggle_stacking", "group_drag_start",
                        "group_drag_stop"} => ~last.ret

\* toggle_fullscreen has been refused by a group of two leaves, none of them
\* fullscreen
C22_Witness ==
    /\ last.op = "group_toggle_fullscreen" /\ ~last.ret
    /\ Len(containers) = 2
    /\ \A i \in 1..Len(containers) :
          kind[containers[i]] = "leaf" /\ win_state[containers[i]] = "restored"

\* C23: while the window-manager mode is resizing, no container other than
\* the one that was active when the mode was entered becomes the active
\* container, through directional select, pointer events or a focus-gained
\* notification: a step taken in resizing mode with an active container
\* leaves that container active or leaves none active.
C23_ResizingKeepsActive ==
    [][(mode = "resizing" /\ mode' = "resizing" /\ active # 0)
       => active' \in {0, active}]_vars

\* C24: if the window that was selected when resizing mode was entered is
\* deleted while the mode is resizing, resizing is completed: the mode is
\* normal once the deletion has been handled.
C24_DeleteCompletesResizing ==
    [][\A n \in Nodes :
         (mode = "resizing" /\ n = active /\ DeleteWindow(n))
         => mode' = "normal"]_vars

\* the leaf the descent into node ends at: in a lane laid out on the axis of
\* a negative direction the last child is entered, in any other lane the
\* first child; 0 in a lane without children
RECURSIVE EntryLeaf(_, _, _)
EntryLeaf(h, node, d) ==
    LET subs == h.sub_nodes[node]
        matches == IF is_vertical_direction(d) THEN h.direction[node] = "vertical"
                   ELSE h.direction[node] = "horizontal"
    IN IF h.kind[node] = "leaf" THEN node
       ELSE IF subs = <<>> THEN 0
       ELSE IF matches /\ is_negative_direction(d)
       THEN EntryLeaf(h, subs[Len(subs)], d)
       ELSE EntryLeaf(h, subs[1], d)

\* C25: when handle_select moves in a negative direction (left, up) into
\* an adjacent sibling that is a lane laid out on the axis of the direction,
\* the selected leaf is found in the last child of that lane (recursively
\* by the same rule), for every lane with at least one child; for a
\* positive direction or a lane of another scheme the first leaf in forward
\* order is selected.
C25_SelectEntersFromNearSide ==
    \A from \in LeavesOf(Heap) : \A d \in Directions :
        LET adjacent == AdjacentChild(Heap, from, d)
        IN (/\ adjacent # 0
            /\ \A l \in Descendants(Heap, adjacent) :
                  kind[l] = "lane" => sub_nodes[l] # <<>>)
           => handle_select(Heap, from, d) = EntryLeaf(Heap, adjacent, d)

\* a select to the left has just entered a horizontal lane of at least two
\* children below the root and has landed on its last child
C25_Witness ==
    /\ last.op = "select" /\ last.ret /\ last.dir = "left"
    /\ active # 0 /\ kind[active] = "leaf"
    /\ parent[active] # 0 /\ parent[active] # root_lane
    /\ direction[parent[active]] = "horizontal"
    /\ Len(sub_nodes[parent[active]]) >= 2
    /\ sub_nodes[parent[active]][Len(sub_nodes[parent[active]])] = active

\* the nearest ancestor lane of node that is laid out on the axis of the
\* direction (0 when there is none), and the lanes climbed through below it
RECURSIVE NearestMatchingLane(_, _, _)
NearestMatchingLane(h, node, d) ==
    LET par == h.parent[node]
    IN IF par = 0 THEN 0
       ELSE IF h.direction[par] = from_direction(d) THEN par
       ELSE NearestMatchingLane(h, par, d)

RECURSIVE ClimbedLanes(_, _, _)
ClimbedLanes(h, node, d) ==
    LET par == h.parent[node]
    IN IF par = 0 \/ h.direction[par] = from_direction(d) THEN {}
       ELSE {par} \cup ClimbedLanes(h, par, d)

\* the containers of the tree h whose logical area differs in g
Resized(h, g) == {n \in InTree(h) : g.logical_area[n] # h.logical_area[n]}

\* a resize of the active leaf can be requested
CanResize ==
    /\ ~crashed /\ ~is_active_window_fullscreen
    /\ active # 0 /\ active \in LeavesOf(Heap)

OriginOn(area, d) == IF d \in {"up", "down"} THEN area.y ELSE area.x
ExtentOn(area, d) == IF d \in {"up", "down"} THEN area.h ELSE area.w

\* C27: after a handle_resize that changes geometry the siblings tile the
\* lane along the resized axis: the first keeps its origin, every later one
\* starts where the previous one ends, every sibling but the target and the
\* last changes by floor(-r / (n - 1)), the target (when it is not last)
\* by r, and the last one takes what is left of the lane's extent.
C27_ResizeTilesLane ==
    \A d \in Directions : \A a \in ResizeJumps :
        LET res == handle_resize(Heap, active, d, a)
        IN (CanResize /\ res.outcome = "changed")
           => LET g == res.h
                  nodes == sub_nodes[res.lane]
                  n == Len(nodes)
                  r == resize_amount_of(d, a)
                  for_others == (0 - r) \div (n - 1)
                  Org(h, i) == OriginOn(h.logical_area[nodes[i]], d)
                  Ext(h, i) == ExtentOn(h.logical_area[nodes[i]], d)
              IN /\ n >= 2
                 /\ Org(g, 1) = Org(Heap, 1)
                 /\ \A i \in 2..n : Org(g, i) = Org(g, i - 1) + Ext(g, i - 1)
                 /\ \A i \in 1..(n - 1) :
                       Ext(g, i) = Ext(Heap, i)
                                   + (IF nodes[i] = res.target THEN r ELSE for_others)
                 /\ Org(g, n) + Ext(g, n)
                    = Org(Heap, 1) + ExtentOn(logical_area[res.lane], d)

\* a lane of three children has just been resized by an amount that does
\* not divide evenly, the target not being the last child
C27_Witness ==
    /\ last.op = "resize" /\ last.ret /\ last.outcome = "changed"
    /\ last.amount = 275
    /\ active # 0 /\ parent[active] # 0
    /\ Len(sub_nodes[parent[active]]) = 3
    /\ sub_nodes[parent[active]][3] # active
    /\ from_direction(last.dir) = direction[parent[active]]

\* the containers whose parent link differs between the heaps h and g
Detached(h, g) == {m \in Nodes : g.parent[m] # h.parent[m]}

\* the heaps h and g hold the same children in every lane but the given one
SameLanesBut(h, g, lane) ==
    \A m \in Nodes \ {lane} : g.sub_nodes[m] = h.sub_nodes[m]

WrappedAlone(h, g, container, scheme) ==
    LET lane == h.parent[container]
        new == g.parent[container]
    IN /\ new # 0 /\ new # lane
       /\ h.kind[new] = "none" /\ g.kind[new] = "lane"
       /\ g.parent[new] = lane
       /\ g.sub_nodes[new] = <<container>>
       /\ g.direction[new] = scheme
       /\ g.direction[lane] = h.direction[lane]
       /\ Len(g.sub_nodes[lane]) = Len(h.sub_nodes[lane])
       /\ \A i \in 1..Len(h.sub_nodes[lane]) :
             LET sibling == h.sub_nodes[lane][i]
             IN IF sibling = container THEN g.sub_nodes[lane][i] = new
                ELSE /\ g.sub_nodes[lane][i] = sibling
                     /\ g.parent[sibling] = lane

\* in g the lane of the container has the scheme and the tree has the shape
\* it has in h
SchemeSetInPlace(h, g, container, scheme) ==
    /\ g.direction[h.parent[container]] = scheme
    /\ g.kind = h.kind
    /\ g.parent = h.parent
    /\ g.sub_nodes = h.sub_nodes

\* a layout request for the container is handled
CanRequestLayout(container) ==
    /\ ~crashed /\ ~is_active_window_fullscreen
    /\ parent[container] # 0
    /\ LayoutNeedsNewLane(Heap, container) => NewLaneId(Heap) # 0

\* C29 as stated: a layout-scheme request on a container whose lane holds
\* other children wraps the target alone in a new lane with the requested
\* scheme, whatever the lane's current scheme; on an only child it sets the
\* lane's own scheme and creates no lane.
C29_Original ==
    \A container \in InTree(Heap) : \A scheme \in RequestableSchemes :
        CanRequestLayout(container)
        => LET g == handle_layout_scheme(Heap, scheme, container)
           IN IF num_nodes(Heap, parent[container]) > 1
              THEN WrappedAlone(Heap, g, container, scheme)
              ELSE SchemeSetInPlace(Heap, g, container, scheme)

\* C29 (amended): a layout-scheme request on a container whose lane holds
\* other children and is not tabbing wraps the target alone in a new lane
\* with the requested scheme, the lane keeping its scheme and the siblings
\* their parent; on an only child, and on any child of a tabbing lane, it
\* sets the lane's own scheme and creates no lane.
C29_LayoutRequestWrapsTarget ==
    \A container \in InTree(Heap) : \A scheme \in RequestableSchemes :
        CanRequestLayout(container)
        => LET g == handle_layout_scheme(Heap, scheme, container)
           IN IF /\ num_nodes(Heap, parent[container]) > 1
                 /\ direction[parent[container]] # "tabbing"
              THEN WrappedAlone(Heap, g, container, scheme)
              ELSE SchemeSetInPlace(Heap, g, container, scheme)

\* a layout request has just wrapped the active window in a lane of its own
\* beside a sibling
C29_Witness ==
    /\ last.op = "layout" /\ last.outcome = "wrapped"
    /\ active # 0 /\ parent[active] # 0 /\ parent[active] # root_lane
    /\ sub_nodes[parent[active]] = <<active>>
    /\ Len(sub_nodes[parent[parent[active]]]) >= 2
    /\ direction[parent[active]] # direction[parent[parent[active]]]

\* C30: advise_restored_container(leaf) clears the fullscreen flag of the
\* tree, and stages and commits the leaf's own logical area, exactly when
\* the flag is set and the leaf is the active container; for any other leaf
\* nothing changes; in both cases every logical area is what it was.
C30_RestoreOnlyActiveFullscreen ==
    \A leaf \in Leaves :
        ~crashed
        => LET g == advise_restored_container(Heap, leaf)
           IN /\ g.logical_area = logical_area
              /\ IF is_active_window_fullscreen /\ active = leaf
                 THEN /\ ~g.fullscreen
                      /\ g.next_logical_area[leaf] = <<>>
                      /\ g = [Heap EXCEPT !.fullscreen = FALSE]
                 ELSE g = Heap

\* the active window has just left fullscreen by a second toggle while
\* another window sits beside it
C30_Witness ==
    /\ last.op = "toggle_fullscreen" /\ last.outcome = "twice"
    /\ ~is_active_window_fullscreen
    /\ active = last.node
    /\ win_state[active] = "restored"
    /\ Cardinality(Leaves) = 2

\* C31: in every reachable state, if the fullscreen flag of the tree is set
\* then some leaf of the tree is fullscreen (so that after the fullscreen
\* leaf is deleted, active or not, the flag is clear and resize, select and
\* move are accepted again).
C31_FlagImpliesFullscreenLeaf ==
    (~crashed /\ is_active_window_fullscreen)
    => \E n \in Leaves : is_fullscreen(Heap, n)

C33_StageThenCommitOnce ==
    \A n \in Leaves : \A r \in StagedAreas :
        ~crashed
        => LET staged == set_logical_area(Heap, n, r)
               once == LeafCommitChanges(staged, n)
               twice == LeafCommitChanges(once, n)
           IN /\ staged.logical_area = logical_area
              /\ get_visible_area(staged, n) = get_visible_area(Heap, n)
              /\ staged = [Heap EXCEPT !.next_logical_area[n] = <<r>>]
              /\ once.logical_area[n] = r
              /\ once.next_logical_area[n] = <<>>
              /\ LeafCommitSends(staged, n)
                   = IF is_fullscreen(once, n) THEN <<>>
                     ELSE <<[previous |-> get_visible_area(Heap, n),
                             next |-> get_visible_area(once, n)]>>
              /\ LeafCommitSends(once, n) = <<>>
              /\ twice = once

\* a staged rectangle has just been committed and sent for a leaf
C33_Witness ==
    /\ last.op = "commit_changes" /\ last.ret /\ ~last.same
    /\ last.node \in Leaves
    /\ logical_area[last.node] \in StagedAreas
    /\ next_logical_area[last.node] = <<>>

\* C34: move_container on a direct child of the root for which handle_select
\* finds no target, while the root's scheme equals the axis of the
\* direction, returns false and leaves the tree as it is: handle_move gives
\* no traversal, no root is created, the root's children keep their order.
C34_MoveAtExtremityRefused ==
    \A node \in InTree(Heap) : \A d \in Directions :
        (/\ ~crashed /\ ~is_active_window_fullscreen
         /\ parent[node] = root_lane
         /\ handle_select(Heap, node, d) = 0
         /\ from_direction(d) = direction[root_lane])
        => LET r == move_container(Heap, d, node)
           IN /\ handle_move(Heap, node, d).traversal_type = "invalid"
              /\ ~r.ret
              /\ r.h = Heap
              /\ r.h.root_lane = root_lane
              /\ r.h.sub_nodes[root_lane] = sub_nodes[root_lane]

\* the active window, at the end of a root of two children, has just been
\* refused a move along the root's axis
C34_Witness ==
    /\ last.op = "move" /\ ~last.ret /\ last.outcome = "invalid" /\ last.same
    /\ active # 0 /\ parent[active] = root_lane
    /\ Len(sub_nodes[root_lane]) = 2
    /\ from_direction(last.dir) = direction[root_lane]

\* the outputs of the list that host the window
HostsOf(p, w) == {o \in Range(p.output_list) : w \in p.hosted[o]}

\* C35: no window is lost when outputs disappear: every window is hosted on
\* an output of the list or is in the orphaned-window list; after
\* advise_output_delete every window of the deleted output is hosted on
\* the first remaining output or, when none remains, is orphaned; when an
\* output is created every orphaned window is added to it and the
\* orphaned-window list is empty afterwards.
C35_NoWindowLost ==
    ~crashed
    => /\ \A w \in windows :
             HostsOf(Outputs, w) # {} \/ w \in Range(orphaned_window_list)
       /\ \A o \in Range(output_list) :
             LET q == advise_output_delete(Outputs, o)
             IN \A w \in hosted[o] :
                   IF q.output_list = <<>>
                   THEN w \in Range(q.orphaned_window_list)
                   ELSE w \in q.hosted[q.output_list[1]]
       /\ \A o \in OutputIds \ Range(output_list) :
             LET q == advise_output_create(Outputs, o)
             IN /\ q.orphaned_window_list = <<>>
                /\ \A w \in Range(orphaned_window_list) : w \in q.hosted[o]

\* an output has just been created while two windows were orphaned, and it
\* hosts them
C35_Witness ==
    /\ last.op = "output_create" /\ last.ret
    /\ orphaned_window_list = <<>>
    /\ Len(output_list) = 1
    /\ Cardinality(hosted[output_list[1]]) = 2
    /\ hosted[output_list[1]] = windows

\* the output that precedes the active one in the list, the last one for
\* the first (0 when the active output is not in the list)
PrecedingOutput(p) ==
    LET i == FindFrom(p.output_list, p.active_output, 0)
    IN IF i < 0 THEN 0
       ELSE IF i = 0 THEN p.output_list[Len(p.output_list)]
       ELSE p.output_list[i]

\* C36: try_select_prev_output indexes the output list only within its
\* bounds, moves the cursor to the output that precedes the active one,
\* wrapping from the first output to the last, and returns false when the
\* active output is not in the list.
C36_SelectPrevOutput ==
    ~crashed
    => LET r == try_select_prev_output(Outputs)
       IN /\ ~r.undefined
          /\ r.ret <=> (active_output \in Range(output_list))
          /\ r.ret => r.cursor = PrecedingOutput(Outputs)

\* the invocations of the callbacks of queued animations (an animation that
\* was never queued has its callback invoked by window_move or window_open)
QueuedInvocations == SelectSeq(invoked, LAMBDA i : i.thread # "caller")

\* C37: the callbacks of queued animations are invoked only by the step in
\* which the server action queue executes its oldest batch, never by a step
\* of the animator thread: the invocations added are exactly the results of
\* that batch, in their order, on the main thread, and a batch executed while
\* running is false adds none.
C37_CallbacksOnlyFromQueue ==
    [][/\ QueuedInvocations' # QueuedInvocations =>
            /\ running
            /\ action_queue # <<>>
            /\ action_queue' = Tail(action_queue)
            /\ anim_pc' = anim_pc
            /\ QueuedInvocations' =
                   QueuedInvocations \o
                       Invocations(Head(action_queue), "main")
       /\ (Len(action_queue') < Len(action_queue) /\ ~running) =>
              invoked' = invoked
       /\ Len(action_queue') > Len(action_queue) =>
              /\ Len(action_queue') = Len(action_queue) + 1
              /\ SubSeq(action_queue', 1, Len(action_queue)) = action_queue]_vars

\* two batches of one animation were executed in the order of their time
\* steps, and a batch was dropped after stop()
C37_Witness ==
    /\ \E i, j \in 1..Len(invoked) :
          /\ i < j
          /\ invoked[i].thread = "main" /\ invoked[j].thread = "main"
          /\ invoked[i].handle = invoked[j].handle
          /\ ~invoked[i].is_complete /\ invoked[j].is_complete
    /\ stop_pc = "returned"
    /\ action_queue = <<>>
    /\ \E a \in Range(queued_animations) :
          /\ a.runtime > 0
          /\ \A i \in 1..Len(invoked) : invoked[i].handle # a.handle

\* C38: once stop() has cleared running and waits in join(), the animator
\* thread leaves run() and stop() returns.
C38_StopReturns == (stop_pc = "joining") ~> (stop_pc = "returned")

\* the results produced so far that can still be told: those invoked for
\* queued animations, then those waiting on the server action queue
RECURSIVE Flatten(_)
Flatten(batches) ==
    IF batches = <<>> THEN <<>>
    ELSE Head(batches) \o Flatten(Tail(batches))

ResultsSoFar ==
    [i \in 1..Len(QueuedInvocations) |->
        [handle |-> QueuedInvocations[i].handle,
         is_complete |-> QueuedInvocations[i].is_complete,
         rect |-> QueuedInvocations[i].rect]] \o Flatten(action_queue)

IsQueued(h) == \E a \in Range(queued_animations) : a.handle = h

\* what one time step does to the queue it finds
TimeStepIsExact ==
    LET q == queued_animations
        A == run_time_step(Animator)
        batch == A.action_queue[Len(A.action_queue)]
        left == {i \in 1..Len(q) : q[i].runtime + 1 < q[i].duration}
    IN  /\ Len(batch) = Len(q)
        /\ \A i \in 1..Len(q) :
              /\ batch[i].handle = q[i].handle
              /\ batch[i].is_complete <=> (i \notin left)
              /\ batch[i].is_complete => batch[i].rect = q[i].to
        /\ Len(A.queued_animations) = Cardinality(left)
        /\ \A i \in left :
              \E k \in 1..Len(A.queued_animations) :
                  A.queued_animations[k] =
                      [q[i] EXCEPT !.runtime = q[i].runtime + 1]

\* a completing result is the last result of its animation, and the
\* animation is queued no more
CompleteIsLast ==
    \A i \in 1..Len(ResultsSoFar) :
        ResultsSoFar[i].is_complete =>
            /\ ~IsQueued(ResultsSoFar[i].handle)
            /\ \A j \in (i + 1)..Len(ResultsSoFar) :
                  ResultsSoFar[j].handle # ResultsSoFar[i].handle

C40_BatchesExecutedOnce ==
    executed = Flatten(SubSeq(accepted, 1, Len(accepted) - ipc_queue))

============================================================================
